---- MODULE Spec2Model ----
(***************************************************************************)
(* State-machine models of the YouTube channel URL validators:             *)
(*   - src/src/utils/youtube-url-validator2.py (async validator, batch     *)
(*     mode over two SQLite databases);                                    *)
(*   - src/src/utils/youtube-url-validator.py (threaded validator, rate    *)
(*     limiter, in-place update of one SQLite table).                      *)
(* Strings are sequences of tokens: <<>> is the empty string, a URL is its *)
(* scheme token (when it has one), its host token and its path token.      *)
(***************************************************************************)
EXTENDS Integers, Sequences, FiniteSets, TLC

\* ------------------------------------------------------------------------
\* Bounds of the model
\* ------------------------------------------------------------------------

\* rows of the input table
InputLen == 3
\* --batch-size of the modelled runs (the program's default is 800)
BatchSize == 2
\* process crashes followed by a rerun
MaxCrashes == 1
\* URLs of the batch whose tasks are followed request by request
TaskCount == 2
\* max_requests_per_minute of the modelled limiter (the program sets 500)
max_requests_per_minute == 2
\* calls of _rate_limit the thread makes when it is the only one
MaxCalls == 3
\* calls of _rate_limit each thread of a pool makes
MaxPoolCalls == 2
\* the clock advances in steps of TickStep seconds up to MaxTime
TickStep == 30
MaxTime == 90
\* rows of the table process_database updates
PdRows == 3
\* --batch-size of the modelled process_database runs
PdBatchSize == 2
\* reruns of process_database after a crash or a failed run
MaxRestarts == 1
\* rows of the CSV file
CsvRows == 3
\* self._checkpoint_size of the modelled runs (the program sets 10)
_checkpoint_size == 2
\* the --limit values of the modelled runs (0: no limit)
CsvLimits == {0, 2}
\* tokens of the URL strings normalization is applied to
MaxUrlLen == 3
\* times normalization is applied in a row
MaxApplications == 2
\* calls of validate_single_url on one validator object
MaxSingleCalls == 3
\* URLs of one process_urls_async call whose coroutines run concurrently
PoolTasks == 2
\* min_request_interval of the validator, in seconds
min_request_interval == 1
\* seconds the clock runs on after the call has started
PoolMaxTime == 2
\* URLs handed to one process_urls call of the downloader
DlLen == 3
\* rows of the CSV file of the API-based validator
ApiRows == 3
\* the most channels process_async puts in a batch (the program sets 20)
MaxBatch == 2
\* max_requests_per_min of the modelled RateLimiter (the program sets 1800000)
max_requests_per_min == 2
\* daily_quota of the modelled RateLimiter (the program sets 10000)
daily_quota == 200

\* ------------------------------------------------------------------------
\* Values
\* ------------------------------------------------------------------------

\* Python's None in an Optional[str] field, SQL NULL in a TEXT column
NONE == "<None>"
\* a NULL cell of the input URL column (not a str)
NULLURL == <<"<NULL>">>

SchemeTokens == {"https://", "http://"}
\* tokens in which `'youtube.com' in url.lower()` or `'youtu.be' in ...` finds a match
YouTubeTokens == {"youtube.com", "www.youtube.com", "youtu.be",
                  "notyoutube.com", "/youtube.com", "?ref=youtube.com"}

UrlA == <<"youtube.com", "/@a">>
UrlAHttps == <<"https://", "youtube.com", "/@a">>
UrlB == <<"https://", "www.youtube.com", "/@b">>
UrlC == <<"youtu.be", "/@c">>
UrlOther == <<"https://", "example.com", "/@foo">>
EmptyUrl == <<>>

\* the values a cell of the input URL column takes
RawUrls == {UrlA, UrlAHttps, UrlB, UrlC, UrlOther, EmptyUrl, NULLURL}
\* the cells of the input table of the modelled multi-batch runs
RunUrls == {UrlA, UrlAHttps, UrlB, UrlOther, EmptyUrl}
\* the URLs of the batch whose tasks are followed request by request
BatchUrls == {UrlC, UrlOther, EmptyUrl, NULLURL}

\* no answer within the timeout: session.get raises asyncio.TimeoutError
TimedOut == 0
\* what the server answers to one GET: a status, or no answer in time
Responses == {200, 404, 429, 500, TimedOut}

\* A fetched page, by what each compiled pattern captures in it (NONE: the
\* pattern does not match); one entry per pattern of the list, in list order.
HtmlPages ==
    { [cid |-> <<NONE, NONE, NONE, NONE>>, handle |-> <<NONE, NONE, NONE>>,
       subs |-> <<NONE, NONE, NONE>>],
      [cid |-> <<"UC1", NONE, NONE, NONE>>, handle |-> <<NONE, NONE, NONE>>,
       subs |-> <<NONE, NONE, NONE>>],
      [cid |-> <<NONE, NONE, NONE, "UC4">>, handle |-> <<"@h", NONE, "@x">>,
       subs |-> <<NONE, "1K", NONE>>],
      [cid |-> <<NONE, NONE, NONE, NONE>>, handle |-> <<NONE, "@h", NONE>>,
       subs |-> <<"2M", NONE, NONE>>] }

\* ------------------------------------------------------------------------
\* State
\* ------------------------------------------------------------------------
VARIABLES
    \* --- youtube-url-validator2.py, process_database_async ---
    input,      \* the URL column of the input table, in rowid order
    table,      \* committed rows of youtube_channel_info, in rowid order
    txn,        \* rows as seen inside save_results' open transaction
    pc,         \* position of process_database_async
    offset,     \* its resume cursor
    urls,       \* the batch selected by get_unprocessed_urls
    pending,    \* indices of urls whose task has not completed
    results,    \* process_urls_async's results, in completion order
    saved,      \* number of results executemany has written into txn
    crashes,    \* process crashes so far
    fatal429,   \* some fetch of this run got 429 on three consecutive attempts
    \* --- youtube-url-validator2.py, process_urls_async ---
    task,       \* the tasks of the batch, one per URL in urls
    \* --- youtube-url-validator.py, YouTubeURLValidator._rate_limit ---
    now,            \* time.time(), in seconds
    heap,           \* the list objects, by identity
    request_times,  \* self.request_times: the identity of a list in heap
    thr,            \* the worker threads inside or outside _rate_limit
    sent,           \* requests let through: their record and the time they left
    dropped,        \* records the limiter removed as expired or as the oldest
    nthreads,       \* worker threads of the pool (max_workers)
    \* --- youtube-url-validator.py, YouTubeURLValidator.process_database ---
    disk,           \* the committed rows of the table, by rowid
    conn,           \* the rows as the open connection sees them
    pd,             \* position of process_database
    total_urls,     \* its count of unprocessed rows
    processed,      \* its count of processed rows
    batch,          \* rowids of the selected batch, in rowid order
    todo,           \* rowids of the batch no worker has finished yet
    update_data,    \* the parameter tuples of the bulk UPDATE, in completion order
    done,           \* tuples executemany has applied
    ret,            \* what process_database returned
    batch_start,    \* the committed rows when the batch was selected
    restarts,       \* reruns after a crash or a failed run
    \* --- youtube_csv_validator.py, YoutubeCSVValidator ---
    csv_file,       \* the rows of the input CSV file, in file order
    remaining,      \* remaining_df: indices of the rows selected as unprocessed
    pos,            \* rows of remaining_df the loop has gone through
    current_batch,  \* results not yet saved
    cv,             \* position of _validate_urls / _save_checkpoint
    retry_count,    \* retry_count of the running _save_checkpoint
    attempts,       \* outcome of each attempt of the running _save_checkpoint
    after,          \* the call site _save_checkpoint returns to
    status,         \* self._status
    \* --- a call of one function on its own ---
    fn_in,          \* the argument of the call
    fn_env,         \* what the environment answers during the call
    fn_out,         \* what the call returned
    fn_pc,          \* before ("call") or after ("done") the call
    \* --- youtube-url-validator2.py, _fetch under process_urls_async ---
    clock,              \* time.time(), in seconds
    _last_request_time, \* self._last_request_time
    _semaphore,         \* self._semaphore: <<>> for None, else <<free slots>>
    semaphore,          \* free slots of process_urls_async's semaphore
    co,                 \* the coroutines of the batch, one per URL
    co_limit,           \* max_concurrent_requests of the validator and of the batch
    started             \* start times of the two most recent GETs

runVars == <<input, table, txn, pc, offset, urls, pending, results, saved,
             crashes, fatal429>>

rlVars == <<now, heap, request_times, thr, sent, dropped, nthreads>>

pdVars == <<disk, conn, pd, total_urls, processed, batch, todo, update_data,
            done, ret, batch_start, restarts>>

csvVars == <<csv_file, remaining, pos, current_batch, cv, retry_count,
             attempts, after, status>>

fnVars == <<fn_in, fn_env, fn_out, fn_pc>>

poolVars == <<clock, _last_request_time, _semaphore, semaphore, co, co_limit,
             started>>

\* everything process_database_async does not touch
notRun == <<task, rlVars, pdVars, csvVars, fnVars, poolVars>>

\* everything _rate_limit does not touch
notRl == <<runVars, task, pdVars, csvVars, fnVars, poolVars>>

\* everything process_urls_async's tasks do not touch
notTask == <<runVars, rlVars, pdVars, csvVars, fnVars, poolVars>>

\* everything process_database does not touch
notPd == <<runVars, task, rlVars, csvVars, fnVars, poolVars>>

\* everything YoutubeCSVValidator does not touch
notCsv == <<runVars, task, rlVars, pdVars, fnVars, poolVars>>

\* everything a function called on its own does not touch
notFn == <<runVars, task, rlVars, pdVars, csvVars, poolVars>>

\* everything the coroutines of _fetch do not touch
notPool == <<runVars, task, rlVars, pdVars, csvVars, fnVars>>

vars == <<runVars, task, rlVars, pdVars, csvVars, fnVars, poolVars>>

\* the initial value of a subsystem that a specification leaves alone
IdleRl ==
    /\ now = 0
    /\ heap = <<>>
    /\ request_times = 0
    /\ thr = <<>>
    /\ sent = {}
    /\ dropped = {}
    /\ nthreads = 0

IdlePd ==
    /\ disk = <<>>
    /\ conn = <<>>
    /\ pd = "idle"
    /\ total_urls = 0
    /\ processed = 0
    /\ batch = <<>>
    /\ todo = {}
    /\ update_data = <<>>
    /\ done = 0
    /\ ret = NONE
    /\ batch_start = <<>>
    /\ restarts = 0

IdleCsv ==
    /\ csv_file = <<>>
    /\ remaining = <<>>
    /\ pos = 0
    /\ current_batch = <<>>
    /\ cv = "idle"
    /\ retry_count = 0
    /\ attempts = <<>>
    /\ after = NONE
    /\ status = <<>>

IdleFn ==
    /\ fn_in = <<>>
    /\ fn_env = <<>>
    /\ fn_out = <<>>
    /\ fn_pc = "idle"

IdlePool ==
    /\ clock = 0
    /\ _last_request_time = 0
    /\ _semaphore = <<>>
    /\ semaphore = 0
    /\ co = <<>>
    /\ co_limit = <<>>
    /\ started = <<>>

\* ------------------------------------------------------------------------
\* youtube-url-validator2.py: YouTubeValidator
\* ------------------------------------------------------------------------

\* max_retries of YouTubeValidator.__init__
max_retries == 3

\* urlparse(url).scheme is non-empty
HasScheme(url) == Len(url) > 0 /\ url[1] \in SchemeTokens

\* is a str
IsStr(url) == url # NULLURL

\* str(url)
Str(url) == IF url = NULLURL THEN <<"None">> ELSE url

\* the normalization step, were the scheme prepended to every input
NormalizeAlwaysPrepends(url) == <<"https://">> \o url

\* lines 164-166: prepend 'https://' when urlparse finds no scheme
Normalize(url) == IF HasScheme(url) THEN url ELSE <<"https://">> \o url

\* line 168: any(domain in url.lower() for domain in ['youtube.com', 'youtu.be'])
MentionsYouTube(url) == \E i \in 1..Len(url) : url[i] \in YouTubeTokens

\* the capture of the last pattern of the list that matches
LastMatch(caps) ==
    IF \A k \in DOMAIN caps : caps[k] = NONE THEN NONE
    ELSE caps[CHOOSE k \in DOMAIN caps :
                 /\ caps[k] # NONE
                 /\ \A j \in DOMAIN caps : caps[j] # NONE => j <= k]

\* first capture of an ordered pattern list: the first pattern that matches wins
RECURSIVE FirstMatch(_)
FirstMatch(caps) ==
    IF caps = <<>> THEN NONE
    ELSE IF Head(caps) # NONE THEN Head(caps)
    ELSE FirstMatch(Tail(caps))

_extract_channel_info(html) ==
    [channel_id |-> FirstMatch(html.cid),
     handle |-> FirstMatch(html.handle),
     subscribers |-> FirstMatch(html.subs)]

ChannelInfo(url, is_valid, channel_id, handle, subscribers, error_message) ==
    [url |-> url, is_valid |-> is_valid, channel_id |-> channel_id,
     handle |-> handle, subscribers |-> subscribers,
     error_message |-> error_message]

\* One pass of _fetch's `for attempt in range(self.max_retries)` body on the
\* server's answer: "return" (the body is returned) or "next" (the loop goes
\* on to the next attempt), with the sleep taken before it.
FetchAttempt(attempt, resp) ==
    IF resp = 429 THEN [go |-> "next", sleep |-> "retry-after"]
    ELSE IF resp = 200 THEN [go |-> "return", sleep |-> "none"]
    ELSE IF resp = TimedOut
         THEN [go |-> "next",
               sleep |-> IF attempt < max_retries - 1 THEN "backoff" ELSE "none"]
    ELSE [go |-> "next", sleep |-> "none"]

\* _fetch on the answers resps[attempt+1], ...: whether the body is returned
\* (ok) or YouTubeValidatorError is raised, and the GETs issued.
RECURSIVE FetchFrom(_, _)
FetchFrom(attempt, resps) ==
    IF attempt >= max_retries THEN [ok |-> FALSE, gets |-> attempt]
    ELSE IF FetchAttempt(attempt, resps[attempt + 1]).go = "return"
         THEN [ok |-> TRUE, gets |-> attempt + 1]
    ELSE FetchFrom(attempt + 1, resps)

_fetch(resps) == FetchFrom(0, resps)

FailedToFetch == "Failed to fetch after max_retries attempts"

\* validate_url, were a page without a handle rejected like a page without a
\* channel ID
validate_url_needs_handle(url, resps, html) ==
    IF url = EmptyUrl \/ ~IsStr(url)
    THEN ChannelInfo(Str(url), FALSE, NONE, NONE, NONE, "Invalid URL format")
    ELSE IF ~MentionsYouTube(Normalize(url))
    THEN ChannelInfo(Normalize(url), FALSE, NONE, NONE, NONE, "Not a YouTube URL")
    ELSE IF ~_fetch(resps).ok
    THEN ChannelInfo(Normalize(url), FALSE, NONE, NONE, NONE, FailedToFetch)
    ELSE IF \/ _extract_channel_info(html).channel_id \in {NONE, ""}
            \/ _extract_channel_info(html).handle \in {NONE, ""}
    THEN ChannelInfo(Normalize(url), FALSE, NONE, NONE, NONE,
                     "Could not extract channel information")
    ELSE ChannelInfo(Normalize(url), TRUE,
                     _extract_channel_info(html).channel_id,
                     _extract_channel_info(html).handle,
                     _extract_channel_info(html).subscribers, NONE)

\* validate_url with the extracted handle and subscriber count kept in the
\* result when no channel ID was extracted
validate_url_keeps_partial(url, resps, html) ==
    IF url = EmptyUrl \/ ~IsStr(url)
    THEN ChannelInfo(Str(url), FALSE, NONE, NONE, NONE, "Invalid URL format")
    ELSE IF ~MentionsYouTube(Normalize(url))
    THEN ChannelInfo(Normalize(url), FALSE, NONE, NONE, NONE, "Not a YouTube URL")
    ELSE IF ~_fetch(resps).ok
    THEN ChannelInfo(Normalize(url), FALSE, NONE, NONE, NONE, FailedToFetch)
    ELSE ChannelInfo(Normalize(url),
                     _extract_channel_info(html).channel_id \notin {NONE, ""},
                     _extract_channel_info(html).channel_id,
                     _extract_channel_info(html).handle,
                     _extract_channel_info(html).subscribers,
                     IF _extract_channel_info(html).channel_id \in {NONE, ""}
                     THEN "Could not extract channel information" ELSE NONE)

\* validate_url, given the answers of the server to the GETs of _fetch and
\* the page a 200 answer carries
validate_url(url, resps, html) ==
    IF url = EmptyUrl \/ ~IsStr(url)
    THEN ChannelInfo(Str(url), FALSE, NONE, NONE, NONE, "Invalid URL format")
    ELSE IF ~MentionsYouTube(Normalize(url))
    THEN ChannelInfo(Normalize(url), FALSE, NONE, NONE, NONE, "Not a YouTube URL")
    ELSE IF ~_fetch(resps).ok
    THEN ChannelInfo(Normalize(url), FALSE, NONE, NONE, NONE, FailedToFetch)
    ELSE IF _extract_channel_info(html).channel_id \in {NONE, ""}
    THEN ChannelInfo(Normalize(url), FALSE, NONE, NONE, NONE,
                     "Could not extract channel information")
    ELSE ChannelInfo(Normalize(url), TRUE,
                     _extract_channel_info(html).channel_id,
                     _extract_channel_info(html).handle,
                     _extract_channel_info(html).subscribers, NONE)

\* the url of the ChannelInfo validate_url returns for an input URL
ResultUrl(url) == IF url = EmptyUrl \/ ~IsStr(url) THEN Str(url) ELSE Normalize(url)

\* validate_url reaches _fetch
Fetches(url) == url # EmptyUrl /\ IsStr(url) /\ MentionsYouTube(Normalize(url))

\* the answers to _fetch's GETs are 429 on three consecutive attempts
ThreeConsecutive429(resps) ==
    \E i \in 1..(max_retries - 2) :
        /\ _fetch(resps).gets >= i + 2
        /\ resps[i] = 429 /\ resps[i + 1] = 429 /\ resps[i + 2] = 429

\* process_with_semaphore letting the YouTubeValidatorError of _fetch out of
\* validate_url
process_with_semaphore_propagates(url, resps, html) ==
    [raised |-> (Fetches(url) /\ ~_fetch(resps).ok),
     result |-> validate_url(url, resps, html)]

\* process_with_semaphore: what awaiting the task of a URL gives, the
\* ChannelInfo validate_url returns or an exception (raised)
process_with_semaphore(url, resps, html) ==
    [raised |-> FALSE, result |-> validate_url(url, resps, html)]

\* lines 445-451: the result of a task is appended; a task that raised is
\* logged and skipped
Collect(res, out) == IF out.raised THEN res ELSE Append(res, out.result)

\* What one task of process_urls_async can produce for a URL, over every
\* sequence of answers of the server and every fetched page.
TaskOutcomes ==
    [url \in RawUrls |->
        { [out |-> process_with_semaphore(url, resps, html),
           three429 |-> (Fetches(url) /\ ThreeConsecutive429(resps))] :
          resps \in [1..max_retries -> Responses], html \in HtmlPages }]

\* ------------------------------------------------------------------------
\* youtube-url-validator2.py: DatabaseManager
\* ------------------------------------------------------------------------

\* the tuple save_results binds for one result
Row(result, batch_id) ==
    [url |-> result.url,
     url_status_code |-> IF result.is_valid THEN 200 ELSE 400,
     url_status |-> IF result.is_valid THEN "valid" ELSE result.error_message,
     youtube_channel_id |-> result.channel_id,
     youtube_channel_handle |-> result.handle,
     subscriber_count |-> result.subscribers,
     batch_id |-> batch_id]

RECURSIVE DeleteUrl(_, _)
DeleteUrl(rows, url) ==
    IF rows = <<>> THEN <<>>
    ELSE IF Head(rows).url = url THEN DeleteUrl(Tail(rows), url)
    ELSE <<Head(rows)>> \o DeleteUrl(Tail(rows), url)

\* a plain INSERT into a table without the PRIMARY KEY
InsertOnly(rows, row) == Append(rows, row)

\* INSERT OR REPLACE into a table whose PRIMARY KEY is url
InsertOrReplace(rows, row) == Append(DeleteUrl(rows, row.url), row)

\* the table has a row under the key url
HasRow(rows, url) == \E i \in 1..Len(rows) : rows[i].url = url

\* SELECT COUNT(*) FROM the output table
get_last_processed_offset(rows) == Len(rows)

RECURSIVE Distinct(_)
Distinct(s) ==
    IF s = <<>> THEN <<>>
    ELSE LET d == Distinct(SubSeq(s, 1, Len(s) - 1))
             x == s[Len(s)]
         IN IF \E i \in 1..Len(d) : d[i] = x THEN d ELSE Append(d, x)

Min(a, b) == IF a < b THEN a ELSE b

\* SELECT DISTINCT url_column FROM table LIMIT batch_size OFFSET offset
get_unprocessed_urls(column, batch_size, off) ==
    SubSeq(Distinct(column), off + 1, Min(off + batch_size, Len(Distinct(column))))

\* ------------------------------------------------------------------------
\* youtube-url-validator2.py: process_database_async, one action per step
\* ------------------------------------------------------------------------

InitRun ==
    /\ input \in [1..InputLen -> RunUrls]
    /\ table = <<>>
    /\ txn = <<>>
    /\ pc = "start"
    /\ offset = 0
    /\ urls = <<>>
    /\ pending = {}
    /\ results = <<>>
    /\ saved = 0
    /\ crashes = 0
    /\ fatal429 = FALSE
    /\ task = <<>>
    /\ IdleRl
    /\ IdlePd
    /\ IdleCsv
    /\ IdleFn
    /\ IdlePool

\* line 465: offset = db_manager.get_last_processed_offset(output_table)
Resume ==
    /\ pc = "start"
    /\ offset' = get_last_processed_offset(table)
    /\ pc' = "loop"
    /\ UNCHANGED <<input, table, txn, urls, pending, results, saved, crashes,
                   fatal429, notRun>>

\* lines 471-473: select the batch; an empty batch ends the loop
GetBatch ==
    /\ pc = "loop"
    /\ urls' = get_unprocessed_urls(input, BatchSize, offset)
    /\ results' = <<>>
    /\ pending' = 1..Len(urls')
    /\ pc' = IF urls' = <<>> THEN "done" ELSE "validate"
    /\ UNCHANGED <<input, table, txn, offset, saved, crashes, fatal429, notRun>>

\* lines 444-448: one task of process_urls_async completes and its result is
\* appended; the tasks complete in any order
TaskCompletes ==
    /\ pc = "validate"
    /\ \E i \in pending : \E o \in TaskOutcomes[urls[i]] :
        /\ results' = Collect(results, o.out)
        /\ pending' = pending \ {i}
        /\ fatal429' = (fatal429 \/ o.three429)
    /\ UNCHANGED <<input, table, txn, pc, offset, urls, saved, crashes, notRun>>

\* line 476: save_results opens the connection; executemany starts a transaction
SaveBegin ==
    /\ pc = "validate"
    /\ pending = {}
    /\ txn' = table
    /\ saved' = 0
    /\ pc' = "save"
    /\ UNCHANGED <<input, table, offset, urls, pending, results, crashes, fatal429,
                   notRun>>

\* lines 392-408: executemany writes the next result's row inside the transaction
SaveRow ==
    /\ pc = "save"
    /\ saved < Len(results)
    /\ txn' = InsertOrReplace(txn, Row(results[saved + 1], offset))
    /\ saved' = saved + 1
    /\ UNCHANGED <<input, table, pc, offset, urls, pending, results, crashes,
                   fatal429, notRun>>

\* line 409: conn.commit()
SaveCommit ==
    /\ pc = "save"
    /\ saved = Len(results)
    /\ table' = txn
    /\ pc' = "advance"
    /\ UNCHANGED <<input, txn, offset, urls, pending, results, saved, crashes,
                   fatal429, notRun>>

\* the loop's handler moving the cursor past the batch whose save raised
SaveFailsSkipsBatch ==
    /\ pc = "save"
    /\ txn' = table
    /\ saved' = 0
    /\ pc' = "loop"
    /\ offset' = offset + Len(results)
    /\ UNCHANGED <<input, table, urls, pending, results, crashes, fatal429, notRun>>

\* lines 410-412, 485-488: a write or the commit raises; the connection is
\* closed without a commit, DatabaseError reaches the loop's handler, which
\* sleeps and continues
SaveFails ==
    /\ pc = "save"
    /\ txn' = table
    /\ saved' = 0
    /\ pc' = "loop"
    /\ UNCHANGED <<input, table, offset, urls, pending, results, crashes, fatal429,
                   notRun>>

\* lines 478-483: offset += len(results)
Advance ==
    /\ pc = "advance"
    /\ offset' = offset + Len(results)
    /\ pc' = "loop"
    /\ UNCHANGED <<input, table, txn, urls, pending, results, saved, crashes,
                   fatal429, notRun>>

\* The process is killed; SQLite rolls the open transaction back, everything
\* in memory is lost, and the program is run again on the same databases.
CrashAndRerun ==
    /\ pc \notin {"start", "done"}
    /\ crashes < MaxCrashes
    /\ crashes' = crashes + 1
    /\ txn' = table
    /\ pc' = "start"
    /\ offset' = 0
    /\ urls' = <<>>
    /\ pending' = {}
    /\ results' = <<>>
    /\ saved' = 0
    /\ fatal429' = FALSE
    /\ UNCHANGED <<input, table, notRun>>

NextRun ==
    \/ Resume
    \/ GetBatch
    \/ TaskCompletes
    \/ SaveBegin
    \/ SaveRow
    \/ SaveCommit
    \/ SaveFails
    \/ Advance
    \/ CrashAndRerun

SpecRun == InitRun /\ [][NextRun]_vars

\* one run while the output database cannot be written: every save_results
\* raises, nothing is committed and the process is not killed; the event loop
\* keeps taking the next step
NextStorageDown ==
    \/ Resume
    \/ GetBatch
    \/ TaskCompletes
    \/ SaveBegin
    \/ SaveRow
    \/ SaveFails

SpecRunStorageDown ==
    InitRun /\ [][NextStorageDown]_vars /\ WF_vars(NextStorageDown)

\* ------------------------------------------------------------------------
\* youtube-url-validator2.py: process_urls_async on one batch, the tasks
\* followed request by request
\* ------------------------------------------------------------------------

\* a task that has not produced anything yet
NoOutcome == [raised |-> FALSE, result |-> ChannelInfo(<<>>, FALSE, NONE, NONE, NONE, NONE)]

\* the answers seen so far, filled up to max_retries answers
Pad(seen) == [k \in 1..max_retries |-> IF k <= Len(seen) THEN seen[k] ELSE TimedOut]

InitBatch ==
    /\ urls \in [1..TaskCount -> BatchUrls]
    /\ task = [i \in 1..TaskCount |->
                 [st |-> "new", attempt |-> 0, seen |-> <<>>, gets |-> 0,
                  first404 |-> 0, body |-> FALSE, out |-> NoOutcome]]
    /\ results = <<>>
    /\ pc = "batch"
    /\ input = <<>>
    /\ table = <<>>
    /\ txn = <<>>
    /\ offset = 0
    /\ pending = {}
    /\ saved = 0
    /\ crashes = 0
    /\ fatal429 = FALSE
    /\ IdleRl
    /\ IdlePd
    /\ IdleCsv
    /\ IdleFn
    /\ IdlePool

\* lines 160-169: validate_url returns before any fetch
TaskRejects(i) ==
    /\ task[i].st = "new"
    /\ ~Fetches(urls[i])
    /\ \E html \in HtmlPages :
          task' = [task EXCEPT ![i].st = "returned",
                       ![i].out = process_with_semaphore(urls[i], Pad(<<>>), html)]
    /\ UNCHANGED notTask

\* line 171: validate_url awaits _fetch
TaskFetches(i) ==
    /\ task[i].st = "new"
    /\ Fetches(urls[i])
    /\ task' = [task EXCEPT ![i].st = "fetching"]
    /\ UNCHANGED notTask

\* the loop going on after an answer, were a 429 answer not to use up an
\* attempt
TaskGetRetries429Free(i) ==
    /\ task[i].st = "fetching"
    /\ \E resp \in Responses :
        /\ FetchAttempt(task[i].attempt, resp).go = "next"
        /\ resp = 429 \/ task[i].attempt + 1 < max_retries
        /\ task' = [task EXCEPT ![i].attempt = IF resp = 429 THEN @ ELSE @ + 1,
                       ![i].seen = Append(@, resp),
                       ![i].gets = @ + 1,
                       ![i].first404 =
                           IF @ = 0 /\ resp = 404 THEN task[i].gets + 1 ELSE @]
    /\ UNCHANGED notTask

\* lines 121-145: one GET of _fetch is answered and the loop goes on
TaskGetRetries(i) ==
    /\ task[i].st = "fetching"
    /\ \E resp \in Responses :
        /\ FetchAttempt(task[i].attempt, resp).go = "next"
        /\ task[i].attempt + 1 < max_retries
        /\ task' = [task EXCEPT ![i].attempt = @ + 1,
                       ![i].seen = Append(@, resp),
                       ![i].gets = @ + 1,
                       ![i].first404 =
                           IF @ = 0 /\ resp = 404 THEN task[i].gets + 1 ELSE @]
    /\ UNCHANGED notTask

\* lines 133-134, 147, 172-190: the GET that ends _fetch is answered, with the
\* body or as the last attempt, and validate_url returns
TaskGetEnds(i) ==
    /\ task[i].st = "fetching"
    /\ \E resp \in Responses, html \in HtmlPages :
        /\ \/ FetchAttempt(task[i].attempt, resp).go = "return"
           \/ task[i].attempt + 1 >= max_retries
        /\ task' = [task EXCEPT ![i].st = "returned",
                       ![i].attempt = @ + 1,
                       ![i].seen = <<>>,
                       ![i].gets = @ + 1,
                       ![i].first404 =
                           IF @ = 0 /\ resp = 404 THEN task[i].gets + 1 ELSE @,
                       ![i].body = (FetchAttempt(task[i].attempt, resp).go = "return"),
                       ![i].out = process_with_semaphore(
                                      urls[i], Pad(Append(task[i].seen, resp)), html)]
    /\ UNCHANGED notTask

\* lines 445-451: as_completed hands the finished task over
TaskCollected(i) ==
    /\ task[i].st = "returned"
    /\ results' = Collect(results, task[i].out)
    /\ task' = [task EXCEPT ![i].st = "collected"]
    /\ UNCHANGED <<input, table, txn, pc, offset, urls, pending, saved, crashes,
                   fatal429, rlVars, pdVars, csvVars, fnVars, poolVars>>

NextBatch ==
    \/ \E i \in 1..TaskCount : TaskRejects(i)
    \/ \E i \in 1..TaskCount : TaskFetches(i)
    \/ \E i \in 1..TaskCount : TaskGetRetries(i)
    \/ \E i \in 1..TaskCount : TaskGetEnds(i)
    \/ \E i \in 1..TaskCount : TaskCollected(i)

SpecBatch == InitBatch /\ [][NextBatch]_vars

\* ------------------------------------------------------------------------
\* youtube-url-validator.py: YouTubeURLValidator._rate_limit, one action per
\* step a thread switch can separate
\* ------------------------------------------------------------------------

\* the window of the limiter: minute_ago = current_time - 60
Window == 60

MaxThreads == 2
Threads == 1..nthreads
ObjIds == 0..MaxThreads

\* [t for t in lst if t > minute_ago]
RECURSIVE Recent(_, _)
Recent(lst, minute_ago) ==
    IF lst = <<>> THEN <<>>
    ELSE IF Head(lst).t > minute_ago
         THEN <<Head(lst)>> \o Recent(Tail(lst), minute_ago)
    ELSE Recent(Tail(lst), minute_ago)

\* lst[1:]
Slice1(lst) == IF lst = <<>> THEN <<>> ELSE Tail(lst)

Elems(lst) == {lst[i] : i \in 1..Len(lst)}

\* a list object no thread and no attribute refers to
FreeObj(root, t) ==
    CHOOSE o \in ObjIds :
        /\ o # root
        /\ \A th \in 1..MaxThreads : ~(t[th].pcs = "append" /\ t[th].ref = o)

\* unreachable list objects are reclaimed
Sweep(h, root, t) ==
    [o \in ObjIds |->
        IF o = root \/ \E th \in 1..MaxThreads : t[th].pcs = "append" /\ t[th].ref = o
        THEN h[o] ELSE <<>>]

IdleThread ==
    [pcs |-> "idle", calls |-> 0, current_time |-> 0, minute_ago |-> 0,
     tmp |-> <<>>, ref |-> 0, sleep_time |-> 0, sleep_start |-> 0]

InitLimiter(n) ==
    /\ nthreads = n
    /\ now = 0
    /\ heap = [o \in ObjIds |-> <<>>]
    /\ request_times = 0
    /\ thr = [th \in 1..MaxThreads |-> IdleThread]
    /\ sent = {}
    /\ dropped = {}
    /\ input = <<>>
    /\ table = <<>>
    /\ txn = <<>>
    /\ pc = "limiter"
    /\ offset = 0
    /\ urls = <<>>
    /\ pending = {}
    /\ results = <<>>
    /\ saved = 0
    /\ crashes = 0
    /\ fatal429 = FALSE
    /\ task = <<>>
    /\ IdlePd
    /\ IdleCsv
    /\ IdleFn
    /\ IdlePool

\* time passes, while every thread is between two requests or in time.sleep
\* (the statements of _rate_limit themselves take no time)
Tick ==
    /\ now + TickStep <= MaxTime
    /\ \A th \in Threads : thr[th].pcs \in {"idle", "sleep", "IndexError"}
    /\ now' = now + TickStep
    /\ UNCHANGED <<heap, request_times, thr, sent, dropped, nthreads, notRl>>

\* lines 74-75: current_time = time.time(); minute_ago = current_time - 60
RlEnter(th) ==
    /\ thr[th].pcs = "idle"
    /\ thr[th].calls < (IF nthreads = 1 THEN MaxCalls ELSE MaxPoolCalls)
    /\ thr' = [thr EXCEPT ![th].pcs = "filter",
                          ![th].calls = @ + 1,
                          ![th].current_time = now,
                          ![th].minute_ago = now - Window]
    /\ UNCHANGED <<now, heap, request_times, sent, dropped, nthreads, notRl>>

\* line 78, right-hand side: the comprehension over the list
RlFilter(th) ==
    /\ thr[th].pcs = "filter"
    /\ thr' = [thr EXCEPT ![th].pcs = "filter_store",
                          ![th].tmp = Recent(heap[request_times], thr[th].minute_ago)]
    /\ dropped' = dropped \cup
                    {e \in Elems(heap[request_times]) : ~(e.t > thr[th].minute_ago)}
    /\ UNCHANGED <<now, heap, request_times, sent, nthreads, notRl>>

\* lines 78 and 84, the assignment: self.request_times = <new list>
RlStore(th) ==
    /\ thr[th].pcs \in {"filter_store", "slice_store"}
    /\ LET o == FreeObj(request_times, thr)
           t2 == [thr EXCEPT ![th].pcs =
                                 IF thr[th].pcs = "filter_store" THEN "check"
                                 ELSE "append_load",
                             ![th].tmp = <<>>]
       IN /\ request_times' = o
          /\ thr' = t2
          /\ heap' = Sweep([heap EXCEPT ![o] = thr[th].tmp], o, t2)
    /\ UNCHANGED <<now, sent, dropped, nthreads, notRl>>

\* line 80: if len(self.request_times) >= self.max_requests_per_minute
RlCheck(th) ==
    /\ thr[th].pcs = "check"
    /\ thr' = [thr EXCEPT ![th].pcs =
                   IF Len(heap[request_times]) >= max_requests_per_minute
                   THEN "head" ELSE "append_load"]
    /\ UNCHANGED <<now, heap, request_times, sent, dropped, nthreads, notRl>>

\* lines 81-83: sleep_time = max(0, self.request_times[0] - minute_ago);
\* an empty list raises IndexError out of _rate_limit
RlHead(th) ==
    /\ thr[th].pcs = "head"
    /\ thr' =
         IF heap[request_times] = <<>>
         THEN [thr EXCEPT ![th].pcs = "IndexError"]
         ELSE LET d == Head(heap[request_times]).t - thr[th].minute_ago
                  sleep_time == IF d > 0 THEN d ELSE 0
              IN [thr EXCEPT ![th].pcs = IF sleep_time > 0 THEN "sleep" ELSE "slice",
                             ![th].sleep_time = sleep_time,
                             ![th].sleep_start = now]
    /\ UNCHANGED <<now, heap, request_times, sent, dropped, nthreads, notRl>>

\* line 83: time.sleep(sleep_time * 0.5) returns
RlWake(th) ==
    /\ thr[th].pcs = "sleep"
    /\ 2 * (now - thr[th].sleep_start) >= thr[th].sleep_time
    /\ thr' = [thr EXCEPT ![th].pcs = "slice", ![th].sleep_time = 0,
                          ![th].sleep_start = 0]
    /\ UNCHANGED <<now, heap, request_times, sent, dropped, nthreads, notRl>>

\* line 84, right-hand side: self.request_times[1:]
RlSlice(th) ==
    /\ thr[th].pcs = "slice"
    /\ thr' = [thr EXCEPT ![th].pcs = "slice_store",
                          ![th].tmp = Slice1(heap[request_times])]
    /\ dropped' = dropped \cup
                    (IF heap[request_times] = <<>> THEN {}
                     ELSE {Head(heap[request_times])})
    /\ UNCHANGED <<now, heap, request_times, sent, nthreads, notRl>>

\* line 86: the attribute self.request_times is loaded for .append
RlLoad(th) ==
    /\ thr[th].pcs = "append_load"
    /\ thr' = [thr EXCEPT ![th].pcs = "append", ![th].ref = request_times]
    /\ UNCHANGED <<now, heap, request_times, sent, dropped, nthreads, notRl>>

\* line 86: .append(current_time) on the loaded list; _rate_limit returns and
\* line 93 sends the request
RlAppend(th) ==
    /\ thr[th].pcs = "append"
    /\ LET e == [t |-> thr[th].current_time, th |-> th, k |-> thr[th].calls]
           t2 == [thr EXCEPT ![th].pcs = "idle", ![th].ref = 0,
                             ![th].current_time = 0, ![th].minute_ago = 0]
       IN /\ thr' = t2
          /\ heap' = Sweep([heap EXCEPT ![thr[th].ref] = Append(@, e)],
                           request_times, t2)
          /\ sent' = sent \cup {[rec |-> e, at |-> now]}
    /\ UNCHANGED <<now, request_times, dropped, nthreads, notRl>>

NextLimiter ==
    \/ Tick
    \/ \E th \in Threads : RlEnter(th)
    \/ \E th \in Threads : RlFilter(th)
    \/ \E th \in Threads : RlStore(th)
    \/ \E th \in Threads : RlCheck(th)
    \/ \E th \in Threads : RlHead(th)
    \/ \E th \in Threads : RlWake(th)
    \/ \E th \in Threads : RlSlice(th)
    \/ \E th \in Threads : RlLoad(th)
    \/ \E th \in Threads : RlAppend(th)

\* one thread calls _rate_limit before each of its requests
SpecLimiter == InitLimiter(1) /\ [][NextLimiter]_vars

\* the worker threads of batch_validate call _rate_limit concurrently
SpecLimiterThreads == InitLimiter(MaxThreads) /\ [][NextLimiter]_vars

\* ------------------------------------------------------------------------
\* youtube-url-validator.py: YouTubeURLValidator.process_database, one action
\* per step
\* ------------------------------------------------------------------------

\* The path tokens: for each, the prefix path.startswith finds ("" when it
\* is neither '/channel/' nor '/@'), the piece path.split(prefix)[1], the id
\* path.strip('/').split('channel/')[1] ("" as well when the stripped path
\* does not begin with 'channel/'), and of the piece its length, its
\* characters ("id": only letters, digits, '_' and '-';
\* "handle": also others, but no whitespace and none of / ? # < > \;
\* "bad": some whitespace or one of / ? # < > \) and whether it begins
\* with 'UC'.
PathTable ==
    { [path |-> "/channel/UCabcdefghijklmnopqrstuv", prefix |-> "/channel/",
       piece |-> "UCabcdefghijklmnopqrstuv", id |-> "UCabcdefghijklmnopqrstuv",
       len |-> 24, chars |-> "id", uc |-> TRUE],
      [path |-> "/channel/XYabcdefghijklmnopqrstuv", prefix |-> "/channel/",
       piece |-> "XYabcdefghijklmnopqrstuv", id |-> "XYabcdefghijklmnopqrstuv",
       len |-> 24, chars |-> "id", uc |-> FALSE],
      [path |-> "/channel/UCabcdefghijklmnopqrstu", prefix |-> "/channel/",
       piece |-> "UCabcdefghijklmnopqrstu", id |-> "UCabcdefghijklmnopqrstu",
       len |-> 23, chars |-> "id", uc |-> TRUE],
      [path |-> "/channel/UCabcdefghijklmnopqrstuvw", prefix |-> "/channel/",
       piece |-> "UCabcdefghijklmnopqrstuvw", id |-> "UCabcdefghijklmnopqrstuvw",
       len |-> 25, chars |-> "id", uc |-> TRUE],
      [path |-> "/channel/UCabcdefghijklmnopqrst.v", prefix |-> "/channel/",
       piece |-> "UCabcdefghijklmnopqrst.v", id |-> "UCabcdefghijklmnopqrst.v",
       len |-> 24, chars |-> "handle", uc |-> TRUE],
      [path |-> "/channel/UCabcdefghijklmnopqrstuv/videos", prefix |-> "/channel/",
       piece |-> "UCabcdefghijklmnopqrstuv/videos", id |-> "UCabcdefghijklmnopqrstuv/videos",
       len |-> 31, chars |-> "bad", uc |-> TRUE],
      [path |-> "/channel/channel/x", prefix |-> "/channel/",
       piece |-> "channel/x", id |-> "",
       len |-> 9, chars |-> "bad", uc |-> FALSE],
      [path |-> "/@SomeHandle", prefix |-> "/@",
       piece |-> "SomeHandle", id |-> "",
       len |-> 10, chars |-> "id", uc |-> FALSE],
      [path |-> "/@a", prefix |-> "/@",
       piece |-> "a", id |-> "",
       len |-> 1, chars |-> "id", uc |-> FALSE],
      [path |-> "/@b", prefix |-> "/@",
       piece |-> "b", id |-> "",
       len |-> 1, chars |-> "id", uc |-> FALSE],
      [path |-> "/@c", prefix |-> "/@",
       piece |-> "c", id |-> "",
       len |-> 1, chars |-> "id", uc |-> FALSE],
      [path |-> "/@foo", prefix |-> "/@",
       piece |-> "foo", id |-> "",
       len |-> 3, chars |-> "id", uc |-> FALSE],
      [path |-> "/@", prefix |-> "/@",
       piece |-> "", id |-> "",
       len |-> 0, chars |-> "id", uc |-> FALSE],
      [path |-> "/@Some.Handle", prefix |-> "/@",
       piece |-> "Some.Handle", id |-> "",
       len |-> 11, chars |-> "handle", uc |-> FALSE],
      [path |-> "/@Some Handle", prefix |-> "/@",
       piece |-> "Some Handle", id |-> "",
       len |-> 11, chars |-> "bad", uc |-> FALSE],
      [path |-> "/@aaaaaaaaaaaaaaaaaaaaaaaaaaaaaa", prefix |-> "/@",
       piece |-> "aaaaaaaaaaaaaaaaaaaaaaaaaaaaaa", id |-> "",
       len |-> 30, chars |-> "id", uc |-> FALSE],
      [path |-> "/@aaaaaaaaaaaaaaaaaaaaaaaaaaaaaaa", prefix |-> "/@",
       piece |-> "aaaaaaaaaaaaaaaaaaaaaaaaaaaaaaa", id |-> "",
       len |-> 31, chars |-> "id", uc |-> FALSE],
      [path |-> "/user/name", prefix |-> "",
       piece |-> "", id |-> "",
       len |-> 0, chars |-> "bad", uc |-> FALSE],
      [path |-> "/c/name", prefix |-> "",
       piece |-> "", id |-> "",
       len |-> 0, chars |-> "bad", uc |-> FALSE],
      [path |-> "/watch", prefix |-> "",
       piece |-> "", id |-> "",
       len |-> 0, chars |-> "bad", uc |-> FALSE],
      [path |-> "", prefix |-> "",
       piece |-> "", id |-> "",
       len |-> 0, chars |-> "bad", uc |-> FALSE] }

\* urlparse(url).path: the token behind the host, '' when there is none or
\* when a query follows the host
UrlPath(url) ==
    IF Len(url) >= 3 /\ \E r \in PathTable : r.path = url[3] THEN url[3] ELSE ""

PathInfo(path) == CHOOSE r \in PathTable : r.path = path

\* the length a handle may have (line 243)
MaxHandleLen == 30
\* the length of a channel ID (line 235)
ChannelIdLen == 24

UrlWatch == <<"https://", "www.youtube.com", "/watch">>

\* the URLs of the table process_database updates
PdUrls == {UrlB, UrlAHttps, UrlWatch}

\* what the server answers to one HEAD: a status, or requests.RequestException
HeadResponses == {200, 204, 404, 500, TimedOut}

\* a Python bool as the text the model stores for it
PyBool(b) == IF b THEN "True" ELSE "False"

\* urlparse(url).netloc: urlparse finds a netloc only behind a scheme
Netloc(url) ==
    IF IsStr(url) /\ HasScheme(url) /\ Len(url) >= 2 THEN url[2] ELSE ""

\* lines 224-250
validate_url_format(url) ==
    IF Netloc(url) # "www.youtube.com"
    THEN [valid |-> FALSE, message |-> "Invalid domain"]
    ELSE IF PathInfo(UrlPath(url)).prefix = "/channel/"
    THEN IF PathInfo(UrlPath(url)).chars = "id"
            /\ PathInfo(UrlPath(url)).len = ChannelIdLen
         THEN [valid |-> TRUE, message |-> "Valid format"]
         ELSE [valid |-> FALSE, message |-> "Invalid channel ID format"]
    ELSE IF PathInfo(UrlPath(url)).prefix = "/@"
    THEN IF ~(PathInfo(UrlPath(url)).chars \in {"id", "handle"}
              /\ PathInfo(UrlPath(url)).len >= 1)
         THEN [valid |-> FALSE, message |-> "Invalid handle format"]
         ELSE IF PathInfo(UrlPath(url)).len > MaxHandleLen
         THEN [valid |-> FALSE, message |-> "Handle too long"]
         ELSE [valid |-> TRUE, message |-> "Valid format"]
    ELSE [valid |-> FALSE, message |-> "Invalid path format"]

\* check_url_accessibility, were every answered HEAD taken as accessible
check_url_accessibility_any_status(resp) ==
    IF resp = TimedOut THEN [accessible |-> FALSE, message |-> "Request error"]
    ELSE IF resp = 404 THEN [accessible |-> TRUE, message |-> "Channel not found"]
    ELSE IF resp \in {200, 204} THEN [accessible |-> TRUE, message |-> "Accessible"]
    ELSE [accessible |-> TRUE, message |-> "HTTP"]

\* lines 93-102
check_url_accessibility(resp) ==
    IF resp = TimedOut THEN [accessible |-> FALSE, message |-> "Request error"]
    ELSE IF resp \in {200, 204} THEN [accessible |-> TRUE, message |-> "Accessible"]
    ELSE IF resp = 404 THEN [accessible |-> FALSE, message |-> "Channel not found"]
    ELSE [accessible |-> FALSE, message |-> "HTTP"]

\* lines 252-273: the accessibility check runs only for a well-formed URL
validate_single_url(rowid, url, resp) ==
    [rowid |-> rowid,
     format_valid |-> PyBool(validate_url_format(url).valid),
     format_message |-> validate_url_format(url).message,
     accessible |-> IF validate_url_format(url).valid
                    THEN PyBool(check_url_accessibility(resp).accessible)
                    ELSE NONE,
     accessibility_message |-> IF validate_url_format(url).valid
                               THEN check_url_accessibility(resp).message
                               ELSE NONE]

\* lines 190-198: one parameter tuple of the bulk UPDATE
UpdateTuple(r) ==
    [url_verified_status |-> IF r.format_valid = "True" /\ r.accessible = "True"
                             THEN "good" ELSE "bad",
     format_valid |-> r.format_valid,
     format_message |-> r.format_message,
     accessible |-> r.accessible,
     accessibility_message |-> r.accessibility_message,
     rowid |-> r.rowid]

\* a row no run has processed
FreshRow(url) ==
    [youtube_channel_url |-> url, url_verified_status |-> NONE,
     format_valid |-> NONE, format_message |-> NONE,
     accessible |-> NONE, accessibility_message |-> NONE]

\* an UPDATE that leaves url_verified_status as it is
UpdateRowKeepsStatus(rows, u) ==
    [rows EXCEPT ![u.rowid] =
        [youtube_channel_url |-> @.youtube_channel_url,
         url_verified_status |-> @.url_verified_status,
         format_valid |-> u.format_valid,
         format_message |-> u.format_message,
         accessible |-> u.accessible,
         accessibility_message |-> u.accessibility_message]]

\* lines 203-211: UPDATE ... SET ... WHERE rowid = ?
UpdateRow(rows, u) ==
    [rows EXCEPT ![u.rowid] =
        [youtube_channel_url |-> @.youtube_channel_url,
         url_verified_status |-> u.url_verified_status,
         format_valid |-> u.format_valid,
         format_message |-> u.format_message,
         accessible |-> u.accessible,
         accessibility_message |-> u.accessibility_message]]

\* the bulk UPDATE applied in full
RECURSIVE UpdateAll(_, _)
UpdateAll(rows, data) ==
    IF data = <<>> THEN rows
    ELSE UpdateAll(UpdateRow(rows, Head(data)), Tail(data))

\* SELECT rowid ..., in rowid order, with no WHERE clause
EveryRow(rows) == [r \in 1..Len(rows) |-> r]

\* SELECT rowid ... WHERE url_verified_status IS NULL, in rowid order
Unprocessed(rows) ==
    SelectSeq([r \in 1..Len(rows) |-> r],
              LAMBDA r : rows[r].url_verified_status = NONE)

\* LIMIT n
Limit(s, n) == SubSeq(s, 1, Min(n, Len(s)))

InitPD ==
    /\ disk \in [1..PdRows -> {FreshRow(u) : u \in PdUrls}]
    /\ conn = disk
    /\ pd = "start"
    /\ total_urls = 0
    /\ processed = 0
    /\ batch = <<>>
    /\ todo = {}
    /\ update_data = <<>>
    /\ done = 0
    /\ ret = NONE
    /\ batch_start = disk
    /\ restarts = 0
    /\ input = <<>>
    /\ table = <<>>
    /\ txn = <<>>
    /\ pc = "process_database"
    /\ offset = 0
    /\ urls = <<>>
    /\ pending = {}
    /\ results = <<>>
    /\ saved = 0
    /\ crashes = 0
    /\ fatal429 = FALSE
    /\ task = <<>>
    /\ IdleRl
    /\ IdleCsv
    /\ IdleFn
    /\ IdlePool

\* lines 126-160: the columns exist, count the unprocessed rows
PdCount ==
    /\ pd = "start"
    /\ total_urls' = Len(Unprocessed(conn))
    /\ processed' = 0
    /\ IF Len(Unprocessed(conn)) = 0
       THEN pd' = "returned" /\ ret' = "True"
       ELSE pd' = "loop" /\ ret' = ret
    /\ UNCHANGED <<disk, conn, batch, todo, update_data, done, batch_start,
                   restarts, notPd>>

\* lines 162-186: select the next batch and hand it to the pool
PdSelect ==
    /\ pd = "loop"
    /\ IF processed >= total_urls \/ Unprocessed(conn) = <<>>
       THEN /\ pd' = "returned"
            /\ ret' = "True"
            /\ UNCHANGED <<batch, todo, update_data, done, batch_start>>
       ELSE /\ batch' = Limit(Unprocessed(conn), PdBatchSize)
            /\ todo' = Elems(Limit(Unprocessed(conn), PdBatchSize))
            /\ update_data' = <<>>
            /\ done' = 0
            /\ batch_start' = disk
            /\ pd' = "validate"
            /\ ret' = ret
    /\ UNCHANGED <<disk, conn, total_urls, processed, restarts, notPd>>

\* lines 114-116, 189-200: a worker finishes a row, in completion order
PdValidate ==
    /\ pd = "validate"
    /\ \E r \in todo, resp \in HeadResponses :
          /\ update_data' = Append(update_data,
                 UpdateTuple(validate_single_url(r, conn[r].youtube_channel_url, resp)))
          /\ todo' = todo \ {r}
          /\ pd' = IF todo = {r} THEN "executemany" ELSE "validate"
    /\ UNCHANGED <<disk, conn, total_urls, processed, batch, done, ret,
                   batch_start, restarts, notPd>>

\* lines 202-212: executemany runs the UPDATE for the next tuple
PdExecute ==
    /\ pd = "executemany"
    /\ done < Len(update_data)
    /\ conn' = UpdateRow(conn, update_data[done + 1])
    /\ done' = done + 1
    /\ UNCHANGED <<disk, pd, total_urls, processed, batch, todo, update_data,
                   ret, batch_start, restarts, notPd>>

\* lines 214-216: conn.commit(), processed += len(batch)
PdCommit ==
    /\ pd = "executemany"
    /\ done = Len(update_data)
    /\ disk' = conn
    /\ processed' = processed + Len(batch)
    /\ pd' = "loop"
    /\ UNCHANGED <<conn, total_urls, batch, todo, update_data, done, ret,
                   batch_start, restarts, notPd>>

\* lines 220-222 and the exit of line 122: a statement of the bulk UPDATE or
\* the commit raises sqlite3.Error; the handler returns False from inside the
\* with block, whose exit commits what the connection holds, unless the error
\* had rolled the transaction back
PdWriteFails ==
    /\ pd = "executemany"
    /\ \E kept \in BOOLEAN :
          /\ disk' = IF kept THEN conn ELSE disk
          /\ conn' = IF kept THEN conn ELSE disk
    /\ pd' = "returned"
    /\ ret' = "False"
    /\ UNCHANGED <<total_urls, processed, batch, todo, update_data, done,
                   batch_start, restarts, notPd>>

\* the process is killed, or an exception that is not sqlite3.Error (one a
\* worker raised, re-raised by future.result() at line 115) leaves the with
\* block of line 122: the open transaction is rolled back
PdCrash ==
    /\ pd \in {"start", "loop", "validate", "executemany"}
    /\ conn' = disk
    /\ pd' = "crashed"
    /\ UNCHANGED <<disk, total_urls, processed, batch, todo, update_data,
                   done, ret, batch_start, restarts, notPd>>

\* the tool is started again on the same table
PdRerun ==
    /\ pd \in {"returned", "crashed"}
    /\ restarts < MaxRestarts
    /\ restarts' = restarts + 1
    /\ conn' = disk
    /\ pd' = "start"
    /\ total_urls' = 0
    /\ processed' = 0
    /\ batch' = <<>>
    /\ todo' = {}
    /\ update_data' = <<>>
    /\ done' = 0
    /\ ret' = NONE
    /\ batch_start' = disk
    /\ UNCHANGED <<disk, notPd>>

NextPD ==
    \/ PdCount
    \/ PdSelect
    \/ PdValidate
    \/ PdExecute
    \/ PdCommit
    \/ PdWriteFails
    \/ PdCrash
    \/ PdRerun

SpecPD == InitPD /\ [][NextPD]_vars

\* one run in which no statement raises sqlite3.Error and the process is not
\* killed: every HEAD returns or times out after 3 seconds, so a worker always
\* finishes its row, and every statement completes
NextPDNoFailure ==
    \/ PdCount
    \/ PdSelect
    \/ PdValidate
    \/ PdExecute
    \/ PdCommit

SpecPDNoFailure ==
    InitPD /\ [][NextPDNoFailure]_vars /\ WF_vars(NextPDNoFailure)

\* ------------------------------------------------------------------------
\* youtube_csv_validator.py: YoutubeCSVValidator._validate_urls and
\* _save_checkpoint, one action per step
\* ------------------------------------------------------------------------

\* pd.NA / NaN: a missing cell
NA == "<NA>"

\* the cells of the URL column
CsvUrls == {"a", "b", NA}

\* the text of a cell of a column the validator does not own: a word, or
\* digits with leading zeros
ExtraCells == {"x", "007"}

\* the cell parses as an integer
IsIntText(cell) == cell \in {"007", "7"}

\* str(int(cell))
IntText(cell) == IF IsIntText(cell) THEN "7" ELSE cell

\* max_retries of _save_checkpoint
ck_max_retries == 3

\* what self._validator.validate_url(url) returns (the imported module is
\* not part of the sources: any object with these attributes)
ValidatorResults(url) ==
    { [url |-> url, is_valid |-> TRUE, channel_id |-> "UC1", handle |-> "@h",
       subscribers |-> "1000", error_message |-> NONE],
      [url |-> url, is_valid |-> TRUE, channel_id |-> "UC1", handle |-> NONE,
       subscribers |-> NONE, error_message |-> NONE],
      [url |-> url, is_valid |-> FALSE, channel_id |-> NONE, handle |-> NONE,
       subscribers |-> NONE, error_message |-> "Invalid URL"] }

\* str(e) of the exceptions validate_url raises
ErrorMessages == {"HTTP 429", "Too Many Requests", "Rate limit exceeded",
                  "Connection reset"}

\* line 312: any(term in error_message for term in ['rate limit', '429',
\* 'too many requests']), on the lower-cased message
MentionsRateLimit(msg) ==
    msg \in {"HTTP 429", "Too Many Requests", "Rate limit exceeded"}

\* x or ''
OrEmpty(x) == IF x = NONE THEN "" ELSE x

\* x or 0
OrZero(x) == IF x = NONE THEN "0" ELSE x

\* lines 277-285
EmptyUrlResult(url) ==
    [url |-> url, validated_url |-> "", is_valid |-> "False", channel_id |-> "",
     handle |-> "", subscribers |-> "0", error |-> "Empty URL"]

\* lines 300-308
ResultOf(url, v) ==
    [url |-> url, validated_url |-> v.url, is_valid |-> PyBool(v.is_valid),
     channel_id |-> OrEmpty(v.channel_id), handle |-> OrEmpty(v.handle),
     subscribers |-> OrZero(v.subscribers), error |-> OrEmpty(v.error_message)]

\* lines 323-331
ErrorResult(url, msg) ==
    [url |-> url, validated_url |-> url, is_valid |-> "False", channel_id |-> "",
     handle |-> "", subscribers |-> "0", error |-> msg]

\* lines 141-153: a row with the validation columns at their defaults
FreshCsvRow(url) ==
    [url |-> url, extra |-> "x", validated_url |-> "", is_valid |-> NA,
     channel_id |-> "", handle |-> "", subscribers |-> NA, error |-> ""]

\* lines 191-192: index of the rows whose URL cell equals url (NaN equals
\* nothing)
RowsWithUrl(rows, url) ==
    {i \in 1..Len(rows) : url # NA /\ rows[i].url # NA /\ rows[i].url = url}

SetMin(S) == CHOOSE m \in S : \A n \in S : m <= n

\* line 178: pd.read_csv infers the type of each column from all of its
\* cells; a column whose cells all parse as integers becomes int64, and
\* to_csv (line 200) writes an int64 cell as str(int); any other column keeps
\* its strings. The cells are given as to_csv writes them back.
read_csv(rows) ==
    IF rows # <<>> /\ \A i \in 1..Len(rows) : IsIntText(rows[i].extra)
    THEN [i \in 1..Len(rows) |-> [rows[i] EXCEPT !.extra = IntText(@)]]
    ELSE rows

\* lines 190-197: write the six validation columns of the first matching row
ApplyResult(rows, r) ==
    IF RowsWithUrl(rows, r.url) = {} THEN rows
    ELSE [rows EXCEPT ![SetMin(RowsWithUrl(rows, r.url))] =
            [url |-> @.url, extra |-> @.extra, validated_url |-> r.validated_url,
             is_valid |-> r.is_valid, channel_id |-> r.channel_id,
             handle |-> r.handle, subscribers |-> r.subscribers,
             error |-> r.error]]

RECURSIVE ApplyResults(_, _)
ApplyResults(rows, rs) ==
    IF rs = <<>> THEN rows
    ELSE ApplyResults(ApplyResult(rows, Head(rs)), Tail(rs))

\* lines 177-200: the file is read, the results are written into the frame
\* and the frame is written over the file
Rewritten(rows, rs) == ApplyResults(read_csv(rows), rs)

\* lines 156-157, 261-262: the rows within the limit (0: no limit) whose
\* subscribers cell is missing
RemainingRows(rows, limit) ==
    SelectSeq([i \in 1..(IF limit = 0 THEN Len(rows) ELSE Min(limit, Len(rows))) |-> i],
              LAMBDA i : rows[i].subscribers = NA)

\* lines 210-218: the handler of a failed attempt, from the retry_count it
\* finds: the new retry_count and whether it re-raises
CheckpointHandlerSwallows(rc) ==
    [retry_count |-> rc + 1, reraise |-> FALSE]

CheckpointHandler(rc) ==
    [retry_count |-> rc + 1, reraise |-> rc + 1 = ck_max_retries]

\* lines 380-391
_update_status(st, batch_results) ==
    [st EXCEPT !.total_processed = @ + Len(batch_results)]

\* lines 214-215, 317-318
StatusFailed(st, msg) ==
    [st EXCEPT !.status = "failed", !.errors = Append(@, msg)]

InitCsv ==
    /\ csv_file \in [1..CsvRows ->
                        {[FreshCsvRow(u) EXCEPT !.extra = x] :
                            u \in CsvUrls, x \in ExtraCells}]
    /\ remaining = <<>>
    /\ pos = 0
    /\ current_batch = <<>>
    /\ cv = "start"
    /\ retry_count = 0
    /\ attempts = <<>>
    /\ after = NONE
    /\ status = [status |-> "pending", errors |-> <<>>, total_processed |-> 0]
    /\ input = <<>>
    /\ table = <<>>
    /\ txn = <<>>
    /\ pc = "csv"
    /\ offset = 0
    /\ urls = <<>>
    /\ pending = {}
    /\ results = <<>>
    /\ saved = 0
    /\ crashes = 0
    /\ fatal429 = FALSE
    /\ task = <<>>
    /\ IdleRl
    /\ IdlePd
    /\ IdleFn
    /\ IdlePool

\* lines 128-163, 253-266: load the file, select the unprocessed rows
CsvLoad ==
    /\ cv = "start"
    /\ \E limit \in CsvLimits : remaining' = RemainingRows(csv_file, limit)
    /\ pos' = 0
    /\ current_batch' = <<>>
    /\ cv' = "next"
    /\ UNCHANGED <<csv_file, retry_count, attempts, after, status, notCsv>>

\* lines 333-336: append the result; a full batch goes to _save_checkpoint
CsvAppend(r) ==
    /\ current_batch' = Append(current_batch, r)
    /\ pos' = pos + 1
    /\ IF Len(current_batch) + 1 >= _checkpoint_size
       THEN cv' = "save" /\ after' = "loop"
       ELSE cv' = "next" /\ after' = after
    /\ retry_count' = 0
    /\ attempts' = <<>>
    /\ UNCHANGED <<csv_file, remaining, status, notCsv>>

\* lines 268-308: the next row is validated and gives a result
CsvValidate ==
    /\ cv = "next"
    /\ pos < Len(remaining)
    /\ LET url == csv_file[remaining[pos + 1]].url IN
          IF url = NA THEN CsvAppend(EmptyUrlResult(url))
          ELSE \E v \in ValidatorResults(url) : CsvAppend(ResultOf(url, v))

\* lines 310-311, 322-331: validate_url raises, without a rate-limit message
CsvValidateRaises ==
    /\ cv = "next"
    /\ pos < Len(remaining)
    /\ csv_file[remaining[pos + 1]].url # NA
    /\ \E msg \in ErrorMessages :
          /\ ~MentionsRateLimit(msg)
          /\ CsvAppend(ErrorResult(csv_file[remaining[pos + 1]].url, msg))

\* lines 312-320: validate_url raises with a rate-limit message: the current
\* batch is saved first when it is not empty, then the process exits
CsvRateLimited ==
    /\ cv = "next"
    /\ pos < Len(remaining)
    /\ csv_file[remaining[pos + 1]].url # NA
    /\ \E msg \in ErrorMessages :
          /\ MentionsRateLimit(msg)
          /\ IF current_batch # <<>>
             THEN /\ cv' = "save"
                  /\ after' = msg
                  /\ status' = status
             ELSE /\ cv' = "exit"
                  /\ after' = after
                  /\ status' = StatusFailed(status, msg)
    /\ retry_count' = 0
    /\ attempts' = <<>>
    /\ UNCHANGED <<csv_file, remaining, pos, current_batch, notCsv>>

\* lines 346-349: the loop is over, the unfinished batch is saved
CsvFinish ==
    /\ cv = "next"
    /\ pos = Len(remaining)
    /\ IF current_batch # <<>>
       THEN cv' = "save" /\ after' = "end"
       ELSE cv' = "done" /\ after' = after
    /\ retry_count' = 0
    /\ attempts' = <<>>
    /\ UNCHANGED <<csv_file, remaining, pos, current_batch, status, notCsv>>

\* lines 175-208: an attempt of _save_checkpoint runs to its return
CkAttemptSucceeds ==
    /\ cv = "save"
    /\ retry_count < ck_max_retries
    /\ csv_file' = Rewritten(csv_file, current_batch)
    /\ status' = _update_status(status, current_batch)
    /\ attempts' = Append(attempts, "ok")
    /\ cv' = "saved"
    /\ UNCHANGED <<remaining, pos, current_batch, retry_count, after, notCsv>>

\* lines 175-218: an attempt raises, before the file is rewritten (read_csv,
\* the backup) or after it (removing the backup); the handler counts it and
\* re-raises at the last one; the loop of line 175 goes on while retry_count
\* is below max_retries
CkAttemptFails ==
    /\ cv = "save"
    /\ retry_count < ck_max_retries
    /\ \E written \in BOOLEAN :
          /\ csv_file' = IF written THEN Rewritten(csv_file, current_batch)
                         ELSE csv_file
          /\ LET st == IF written THEN _update_status(status, current_batch)
                       ELSE status
                 h == CheckpointHandler(retry_count)
             IN  /\ retry_count' = h.retry_count
                 /\ IF h.reraise
                    THEN /\ status' = _update_status(StatusFailed(st, "checkpoint"), <<>>)
                         /\ cv' = "raised"
                    ELSE /\ status' = st
                         /\ cv' = IF h.retry_count < ck_max_retries
                                  THEN "save" ELSE "saved"
    /\ attempts' = Append(attempts, "failed")
    /\ UNCHANGED <<remaining, pos, current_batch, after, notCsv>>

\* lines 316-320, 337-344, 349: back at the call site of _save_checkpoint
CsvAfterSave ==
    /\ cv = "saved"
    /\ IF after = "loop"
       THEN cv' = "next" /\ current_batch' = <<>> /\ status' = status
       ELSE IF after = "end"
       THEN cv' = "done" /\ current_batch' = current_batch /\ status' = status
       ELSE /\ cv' = "exit"
            /\ current_batch' = current_batch
            /\ status' = StatusFailed(status, after)
    /\ UNCHANGED <<csv_file, remaining, pos, retry_count, attempts, after, notCsv>>

NextCsv ==
    \/ CsvLoad
    \/ CsvValidate
    \/ CsvValidateRaises
    \/ CsvRateLimited
    \/ CsvFinish
    \/ CkAttemptSucceeds
    \/ CkAttemptFails
    \/ CsvAfterSave

SpecCsv == InitCsv /\ [][NextCsv]_vars

\* ------------------------------------------------------------------------
\* youtube-url-validator2.py: the normalization step of validate_url, applied
\* to a string and to its own result
\* ------------------------------------------------------------------------

UrlTokens == {"https://", "http://", "youtube.com", "example.com", "/@a",
              "/youtube.com"}

\* the non-empty strings of at most MaxUrlLen tokens
UrlStrings == UNION {[1..n -> UrlTokens] : n \in 1..MaxUrlLen}

\* the other parts of the program while one function is called on its own
AloneFn ==
    /\ input = <<>>
    /\ table = <<>>
    /\ txn = <<>>
    /\ pc = "function"
    /\ offset = 0
    /\ urls = <<>>
    /\ pending = {}
    /\ results = <<>>
    /\ saved = 0
    /\ crashes = 0
    /\ fatal429 = FALSE
    /\ task = <<>>
    /\ IdleRl
    /\ IdlePd
    /\ IdleCsv
    /\ IdlePool

InitFn(inputs) ==
    /\ fn_in \in inputs
    /\ fn_env = 0
    /\ fn_out = <<>>
    /\ fn_pc = "call"
    /\ AloneFn

\* lines 164-166, on the input and then on what the step returned
NormalizeStep ==
    /\ fn_pc \in {"call", "done"}
    /\ fn_env < MaxApplications
    /\ fn_out' = Normalize(IF fn_pc = "call" THEN fn_in ELSE fn_out)
    /\ fn_env' = fn_env + 1
    /\ fn_pc' = "done"
    /\ UNCHANGED <<fn_in, notFn>>

SpecNormalize == InitFn(UrlStrings) /\ [][NormalizeStep]_vars

\* ------------------------------------------------------------------------
\* youtube-url-validator2.py: one call of validate_url
\* ------------------------------------------------------------------------

\* 'youtube.com' only in the path, only in the query, inside another host name
UrlPathMention == <<"https://", "example.com", "/youtube.com">>
UrlQueryMention == <<"example.com", "?ref=youtube.com">>
UrlLookalike == <<"https://", "notyoutube.com", "/@a">>

ValidateInputs == RawUrls \cup {UrlPathMention, UrlQueryMention, UrlLookalike}

\* lines 160-190 with _fetch's loop: the GETs issued and the page fetched are
\* kept next to the result
ValidateUrlCall ==
    /\ fn_pc = "call"
    /\ \E resps \in [1..max_retries -> Responses], html \in HtmlPages :
          /\ fn_env' = IF ~Fetches(fn_in) THEN [gets |-> 0]
                        ELSE IF ~_fetch(resps).ok
                        THEN [gets |-> _fetch(resps).gets, resps |-> resps]
                        ELSE [gets |-> _fetch(resps).gets, resps |-> resps,
                              html |-> html]
          /\ fn_out' = validate_url(fn_in, resps, html)
    /\ fn_pc' = "done"
    /\ UNCHANGED <<fn_in, notFn>>

SpecValidateUrl == InitFn(ValidateInputs) /\ [][ValidateUrlCall]_vars

\* ------------------------------------------------------------------------
\* youtube-url-validator2.py: one call of _extract_channel_info
\* ------------------------------------------------------------------------

\* what the patterns of one list capture in a page: each pattern its own
\* value, or nothing
CapturesOf(values) ==
    {[k \in 1..Len(values) |-> IF k \in S THEN values[k] ELSE NONE] :
        S \in SUBSET (1..Len(values))}

\* the pages, by what the four channel-ID, three handle and three subscriber
\* patterns capture in them
ExtractPages ==
    [cid : CapturesOf(<<"UC1", "UC2", "UC3", "UC4">>),
     handle : CapturesOf(<<"@h1", "@h2", "@h3">>),
     subs : CapturesOf(<<"1K", "2M", "3B">>)]

\* lines 217-252
ExtractCall ==
    /\ fn_pc = "call"
    /\ fn_out' = _extract_channel_info(fn_in)
    /\ fn_pc' = "done"
    /\ UNCHANGED <<fn_in, fn_env, notFn>>

SpecExtract == InitFn(ExtractPages) /\ [][ExtractCall]_vars

\* ------------------------------------------------------------------------
\* youtube-url-validator.py: one call of validate_url_format
\* ------------------------------------------------------------------------

FormatHosts == {"youtube.com", "www.youtube.com", "youtu.be", "example.com"}

\* a host and a path, behind a scheme or not, and the values that are no URL
FormatInputs ==
    {NULLURL, EmptyUrl} \cup
    { sch \o <<h>> \o (IF r.path = "" THEN <<>> ELSE <<r.path>>) :
        sch \in {<<>>, <<"https://">>, <<"http://">>},
        h \in FormatHosts, r \in PathTable }

\* lines 224-250
FormatCall ==
    /\ fn_pc = "call"
    /\ fn_out' = validate_url_format(fn_in)
    /\ fn_pc' = "done"
    /\ UNCHANGED <<fn_in, fn_env, notFn>>

SpecFormat == InitFn(FormatInputs) /\ [][FormatCall]_vars

\* ------------------------------------------------------------------------
\* youtube-url-validator.py: calls of validate_single_url on one validator,
\* one after the other
\* ------------------------------------------------------------------------

\* len(self.sessions)
NumSessions == 10

UrlLongHandle == <<"https://", "www.youtube.com", "/@aaaaaaaaaaaaaaaaaaaaaaaaaaaaaaa">>

SingleUrls == {UrlB, UrlAHttps, UrlWatch, UrlLongHandle, NULLURL}

\* lines 40-56: the validator after __init__
NewValidator ==
    [request_times |-> <<>>, current_session |-> 0, heads |-> 0, now |-> 0,
     calls |-> 0]

\* lines 72-86 run by one thread at time t: self.request_times afterwards
RateLimitedTimes(rt, t) ==
    LET kept == SelectSeq(rt, LAMBDA x : x > t - Window) IN
    IF Len(kept) >= max_requests_per_minute
    THEN Append(Slice1(kept), t)
    ELSE Append(kept, t)

\* the validator after validate_single_url, were the accessibility check
\* made for every URL
AfterSingleUrlAlwaysChecks(v, url, t) ==
    [v EXCEPT !.request_times = RateLimitedTimes(@, t),
              !.current_session = (@ + 1) % NumSessions,
              !.heads = @ + 1,
              !.now = t,
              !.calls = @ + 1]

\* lines 252-273, 88-93, 66-70: the validator after validate_single_url at
\* time t: _rate_limit, _get_session and the HEAD happen only under
\* `if format_valid`
AfterSingleUrl(v, url, t) ==
    IF validate_url_format(url).valid
    THEN [v EXCEPT !.request_times = RateLimitedTimes(@, t),
                   !.current_session = (@ + 1) % NumSessions,
                   !.heads = @ + 1,
                   !.now = t,
                   !.calls = @ + 1]
    ELSE [v EXCEPT !.now = t, !.calls = @ + 1]

InitSingle ==
    /\ fn_in \in SingleUrls
    /\ fn_env = NewValidator
    /\ fn_out = <<>>
    /\ fn_pc = "call"
    /\ AloneFn

\* lines 252-273
SingleCall ==
    /\ fn_pc = "call"
    /\ \E resp \in HeadResponses, t \in {fn_env.now, fn_env.now + TickStep} :
          /\ t <= MaxTime
          /\ fn_out' = validate_single_url(fn_env.calls + 1, fn_in, resp)
          /\ fn_env' = AfterSingleUrl(fn_env, fn_in, t)
    /\ fn_pc' = "done"
    /\ UNCHANGED <<fn_in, notFn>>

\* the next URL is handed to the same validator
SingleNext ==
    /\ fn_pc = "done"
    /\ fn_env.calls < MaxSingleCalls
    /\ fn_in' \in SingleUrls
    /\ fn_pc' = "call"
    /\ UNCHANGED <<fn_env, fn_out, notFn>>

NextSingle ==
    \/ SingleCall
    \/ SingleNext

SpecSingle == InitSingle /\ [][NextSingle]_vars

\* ------------------------------------------------------------------------
\* youtube-channel-id-handle-convert.py: one call of extract_channel_info
\* ------------------------------------------------------------------------

\* urlparse(url).path: behind a scheme the token that follows the host;
\* without a scheme urlparse finds no host and the path begins with the
\* first token
ParsedPath(url) ==
    IF HasScheme(url) THEN PathInfo(UrlPath(url))
    ELSE PathInfo("")

\* re.match(r'^UC[\w-]{22}$', channel_id)
MatchesChannelId(p) == p.uc /\ p.len = ChannelIdLen /\ p.chars = "id"

\* re.match(r'^@[\w-]+$', channel_handle)
MatchesHandle(p) == p.len >= 1 /\ p.chars = "id"

\* lines 10-67; the value is the pair (channel_id, channel_handle)
extract_channel_info(url) ==
    IF ~IsStr(url) THEN <<NONE, NONE>>
    ELSE LET p == ParsedPath(url)
             channel_id == IF p.prefix = "/channel/" THEN p.id ELSE NONE
             channel_handle == IF p.prefix = "/@" THEN "@" \o p.piece ELSE NONE
         IN  << IF channel_id \notin {NONE, ""} /\ ~MatchesChannelId(p)
                THEN NONE ELSE channel_id,
                IF channel_handle # NONE /\ ~MatchesHandle(p)
                THEN NONE ELSE channel_handle >>

\* lines 10-67
ConvertCall ==
    /\ fn_pc = "call"
    /\ fn_out' = extract_channel_info(fn_in)
    /\ fn_pc' = "done"
    /\ UNCHANGED <<fn_in, fn_env, notFn>>

SpecConvert == InitFn(FormatInputs) /\ [][ConvertCall]_vars

\* ------------------------------------------------------------------------
\* youtube_url_download_async.py: AsyncYouTubeDownloader.process_urls with
\* process_url and download_html (the definition of line 244, which replaces
\* the one of line 107), one URL after the other
\* ------------------------------------------------------------------------

\* two URLs of one domain, one of them with a trailing blank as a CSV cell
\* can carry it, and a URL of another domain
DlUrls == {"https://www.youtube.com/@a", "https://www.youtube.com/@b ",
           "https://youtu.be/c"}

\* the --concurrency values of the modelled runs
DlConcurrency == {1, 2}

\* the text of a 200 answer: empty or not
DlPages == {"", "<html>"}

\* what the server answers to one GET: a status, or the request raises
DlResponses == {200, 404, 429, TimedOut}

\* urlparse(url).netloc
DlNetloc(url) ==
    IF url = "https://youtu.be/c" THEN "youtu.be" ELSE "www.youtube.com"

\* line.strip()
Strip(line) ==
    IF line = "https://www.youtube.com/@b "
    THEN "https://www.youtube.com/@b" ELSE line

\* lines 85-95: the set of the stripped non-empty lines of the checkpoint file
_load_checkpoint(lines) == {Strip(l) : l \in lines}

\* lines 274-280: the keys of domain_urls, in the order of their first URL
RECURSIVE DomainOrder(_, _)
DomainOrder(us, seen) ==
    IF us = <<>> THEN seen
    ELSE DomainOrder(Tail(us),
                     IF \E k \in 1..Len(seen) : seen[k] = DlNetloc(Head(us))
                     THEN seen ELSE Append(seen, DlNetloc(Head(us))))

\* lines 193-195: the URLs in the order the two loops go through them, domain
\* after domain and in input order inside a domain
RECURSIVE UrlsOfDomains(_, _)
UrlsOfDomains(us, domains) ==
    IF domains = <<>> THEN <<>>
    ELSE SelectSeq(us, LAMBDA u : DlNetloc(u) = Head(domains))
         \o UrlsOfDomains(us, Tail(domains))

_group_urls_by_domain(us) == UrlsOfDomains(us, DomainOrder(us, <<>>))

\* the URL the loops are at
DlUrl == _group_urls_by_domain(fn_in)[fn_env.i]

\* download_html as process_url calls it, were it the definition of line 107:
\* the slots of self.semaphore it takes around session.get (line 142)
HeldByFirstDownloadHtml == 1

\* the slots of self.semaphore the download_html of line 244 takes
HeldByDownloadHtml == 0

\* lines 83, 181-184: the checkpoint is loaded, the loop is at the first URL
InitDownload ==
    /\ fn_in \in [1..DlLen -> DlUrls]
    /\ \E lines \in SUBSET DlUrls, concurrency \in DlConcurrency :
          fn_env = [i |-> 1,
                    checkpoint_file |-> lines,
                    loaded |-> _load_checkpoint(lines),
                    completed_urls |-> _load_checkpoint(lines),
                    html_files |-> {},
                    requested |-> <<>>,
                    concurrency |-> concurrency,
                    free |-> concurrency]
    /\ fn_out = <<>>
    /\ fn_pc = "next"
    /\ AloneFn

\* lines 196-199: the URL is in the checkpoint
DlSkip ==
    /\ fn_pc = "next"
    /\ fn_env.i <= Len(fn_in)
    /\ DlUrl \in fn_env.completed_urls
    /\ fn_out' = Append(fn_out, <<DlUrl, TRUE>>)
    /\ fn_env' = [fn_env EXCEPT !.i = @ + 1]
    /\ UNCHANGED <<fn_in, fn_pc, notFn>>

\* lines 202, 232-234, 256: process_url takes a slot of self.semaphore and
\* calls download_html, which sends a GET once it has the slots it takes
\* itself
DlCall ==
    /\ fn_pc = "next"
    /\ fn_env.i <= Len(fn_in)
    /\ DlUrl \notin fn_env.completed_urls
    /\ fn_env.free > 0
    /\ IF fn_env.free - 1 >= HeldByDownloadHtml
       THEN /\ fn_pc' = "get"
            /\ fn_env' = [fn_env EXCEPT
                            !.free = @ - 1 - HeldByDownloadHtml,
                            !.requested = Append(@, DlUrl)]
       ELSE /\ fn_pc' = "blocked"
            /\ fn_env' = [fn_env EXCEPT !.free = @ - 1]
    /\ UNCHANGED <<fn_in, fn_out, notFn>>

\* process_urls, were the URL added to the checkpoint whatever process_url
\* returned
DlReturnedAlwaysCheckpoints(html_content) ==
    \E stored \in BOOLEAN :
        LET success == html_content \notin {NONE, ""} /\ stored IN
        /\ fn_out' = Append(fn_out, <<DlUrl, success>>)
        /\ fn_env' = [fn_env EXCEPT
                        !.i = @ + 1,
                        !.free = @ + 1 + HeldByDownloadHtml,
                        !.html_files =
                            IF success THEN @ \cup {DlUrl} ELSE @,
                        !.checkpoint_file = @ \cup {DlUrl},
                        !.completed_urls = @ \cup {DlUrl}]
        /\ fn_pc' = "next"

\* lines 203-209, 235-239, 97-105: download_html has returned html_content
\* (NONE for None) to process_url, which saves it unless save_html raises,
\* and process_url its verdict to process_urls, which appends the URL to the
\* checkpoint file unless the write raises
DlReturned(html_content) ==
    \E stored \in BOOLEAN, written \in BOOLEAN :
        LET success == html_content \notin {NONE, ""} /\ stored IN
        /\ fn_out' = Append(fn_out, <<DlUrl, success>>)
        /\ fn_env' = [fn_env EXCEPT
                        !.i = @ + 1,
                        !.free = @ + 1 + HeldByDownloadHtml,
                        !.html_files =
                            IF success THEN @ \cup {DlUrl} ELSE @,
                        !.checkpoint_file =
                            IF success /\ written THEN @ \cup {DlUrl} ELSE @,
                        !.completed_urls =
                            IF success THEN @ \cup {DlUrl} ELSE @]
        /\ fn_pc' = "next"

\* lines 256-270: the GET is answered
DlAnswer ==
    /\ fn_pc = "get"
    /\ \E resp \in DlResponses, text \in DlPages :
          IF resp = 429
          THEN /\ fn_pc' = "sleep"
               /\ UNCHANGED <<fn_env, fn_out>>
          ELSE DlReturned(IF resp = 200 THEN text ELSE NONE)
    /\ UNCHANGED <<fn_in, notFn>>

\* lines 262-263: asyncio.sleep(wait_time) is over and download_html calls
\* itself, which sends the next GET
DlRetry ==
    /\ fn_pc = "sleep"
    /\ fn_pc' = "get"
    /\ UNCHANGED <<fn_in, fn_env, fn_out, notFn>>

\* lines 227-228: every URL has been gone through
DlFinish ==
    /\ fn_pc = "next"
    /\ fn_env.i > Len(fn_in)
    /\ fn_pc' = "done"
    /\ UNCHANGED <<fn_in, fn_env, fn_out, notFn>>

NextDownload ==
    \/ DlSkip
    \/ DlCall
    \/ DlAnswer
    \/ DlRetry
    \/ DlFinish

\* the server answers every request and every sleep ends
SpecDownload ==
    InitDownload /\ [][NextDownload]_vars /\ WF_vars(NextDownload)

\* ------------------------------------------------------------------------
\* youtube_csv_validator_api.py: YoutubeCSVValidator.process_async with the
\* tasks of _process_batch and the RateLimiter of the YouTubeValidator
\* ------------------------------------------------------------------------

\* a handle URL, a channel-ID URL and a URL no pattern matches
ApiUrls == {"https://www.youtube.com/@h", "https://www.youtube.com/channel/UC1",
            "https://example.com/x"}

\* the --limit values of the modelled runs (0: no limit)
ApiLimits == {0, 2}

\* lines 106-119: the first capture of the four patterns
_extract_channel_id(url) ==
    IF url = "https://www.youtube.com/@h" THEN "@h"
    ELSE IF url = "https://www.youtube.com/channel/UC1" THEN "UC1"
    ELSE NONE

\* line 141: quota_cost = 100 if identifier.startswith('@') else 1
QuotaCost(identifier) == IF identifier = "@h" THEN 100 ELSE 1

\* self._daily_quota of the YouTubeValidator (line 100)
_daily_quota == 10000

\* self._quota_used of the YouTubeValidator (line 99; nothing calls
\* _track_quota)
_quota_used == 0

\* estimated_cost_per_channel (line 299)
estimated_cost_per_channel == 150

\* lines 297-300
safe_batch_size ==
    Min(MaxBatch, (_daily_quota - _quota_used) \div estimated_cost_per_channel)

\* what run_in_executor gives for _get_channel_info_sync: the set {...} of
\* line 166, an error dict (lines 184, 186), None (the search branch falls
\* off the end) or the exception of line 183
ApiOutcomes == {"set", "dict", "none", "raise"}

\* lines 262-276: what awaiting the task writes into the row; result.items()
\* of a set and `'error' in None` raise, which the handler records
Recorded(row, outcome) ==
    [row EXCEPT !.is_valid = "False",
                !.error = IF outcome = "set" THEN "AttributeError"
                          ELSE IF outcome = "none" THEN "TypeError"
                          ELSE IF outcome = "dict" THEN "API error"
                          ELSE "YouTube API quota exceeded"]

\* lines 248-250
InvalidFormat(row) ==
    [row EXCEPT !.is_valid = "False", !.error = "Invalid URL format"]

\* lines 69-70: the requests older than 60 seconds leave the deque
RECURSIVE PopOld(_)
PopOld(requests) ==
    IF requests # <<>> /\ Head(requests) = "old" THEN PopOld(Tail(requests))
    ELSE requests

\* can_proceed, were the daily quota not looked at
can_proceed_without_quota(limiter, quota_cost) ==
    Len(PopOld(limiter.requests)) < max_requests_per_min

\* lines 64-79
can_proceed(limiter, quota_cost) ==
    /\ Len(PopOld(limiter.requests)) < max_requests_per_min
    /\ limiter.quota_used + quota_cost <= daily_quota

\* lines 81-84
add_request(limiter, quota_cost) ==
    [requests |-> Append(limiter.requests, "recent"),
     quota_used |-> limiter.quota_used + quota_cost]

\* lines 216-227: a row of the frame, with the result columns at their
\* defaults or filled by an earlier run
ApiRow(url, subscribers) ==
    [url |-> url, subscribers |-> subscribers, is_valid |-> NA, error |-> ""]

\* first n elements (iloc[:n])
Iloc(s, n) == SubSeq(s, 1, Min(n, Len(s)))

\* lines 207-230: the frame process_async works on; `if self._limit` is false
\* for None and for 0
_load_csv(rows, limit) == IF limit # 0 THEN Iloc(rows, limit) ELSE rows

\* lines 282-283: the positions of the rows whose subscribers cell is missing
ApiRemaining(df) ==
    SelectSeq([i \in 1..Len(df) |-> i], LAMBDA i : df[i].subscribers = NA)

\* the file holds rows of which the first few were filled by an earlier run
InitApi ==
    /\ \E us \in [1..ApiRows -> ApiUrls], filled \in 0..1, limit \in ApiLimits :
          /\ fn_in = [limit |-> limit,
                      rows |-> [k \in 1..ApiRows |->
                                  ApiRow(us[k], IF k <= filled THEN "1000" ELSE NA)]]
          /\ fn_env = [file |-> fn_in.rows,
                       df |-> <<>>,
                       remaining |-> <<>>,
                       start_idx |-> 0,
                       tasks |-> <<>>,
                       awaited |-> 0,
                       limiter |-> [requests |-> <<>>, quota_used |-> 0]]
    /\ fn_out = <<>>
    /\ fn_pc = "load"
    /\ AloneFn

\* lines 280-303: the frame is loaded; with nothing left to process the call
\* returns
ApiLoad ==
    /\ fn_pc = "load"
    /\ LET df == _load_csv(fn_env.file, fn_in.limit) IN
          /\ fn_env' = [fn_env EXCEPT !.df = df, !.remaining = ApiRemaining(df)]
          /\ fn_pc' = IF ApiRemaining(df) = <<>> \/ safe_batch_size = 0
                      THEN "done" ELSE "batch"
    /\ UNCHANGED <<fn_in, fn_out, notFn>>

\* the rows of the batch that starts at start_idx
BatchRows ==
    SubSeq(fn_env.remaining, fn_env.start_idx + 1,
           Min(fn_env.start_idx + safe_batch_size, Len(fn_env.remaining)))

\* lines 309-310, 243-257: the first loop of _process_batch marks the rows no
\* pattern matches and creates a task for each of the others
ApiCreateTasks ==
    /\ fn_pc = "batch"
    /\ fn_env.start_idx < Len(fn_env.remaining)
    /\ LET withId == SelectSeq(BatchRows,
                       LAMBDA r : _extract_channel_id(fn_env.df[r].url) # NONE)
       IN  fn_env' = [fn_env EXCEPT
              !.df = [r \in 1..Len(@) |->
                        IF /\ \E k \in 1..Len(BatchRows) : BatchRows[k] = r
                           /\ _extract_channel_id(@[r].url) = NONE
                        THEN InvalidFormat(@[r]) ELSE @[r]],
              !.tasks = [k \in 1..Len(withId) |->
                           [index |-> withId[k],
                            identifier |-> _extract_channel_id(fn_env.df[withId[k]].url),
                            st |-> "created",
                            outcome |-> NONE]],
              !.awaited = 0]
    /\ fn_pc' = "await"
    /\ UNCHANGED <<fn_in, fn_out, notFn>>

\* lines 128-130: one pass of _wait_for_rate_limit between two suspensions:
\* can_proceed, then add_request or the start of asyncio.sleep(0.005)
ApiAdmit(i) ==
    /\ fn_pc = "await"
    /\ i \in DOMAIN fn_env.tasks
    /\ fn_env.tasks[i].st \in {"created", "waiting"}
    /\ LET cost == QuotaCost(fn_env.tasks[i].identifier)
           pruned == [fn_env.limiter EXCEPT !.requests = PopOld(@)]
       IN  IF can_proceed(fn_env.limiter, cost)
           THEN fn_env' = [fn_env EXCEPT !.limiter = add_request(pruned, cost),
                                         !.tasks[i].st = "executing"]
           ELSE fn_env' = [fn_env EXCEPT !.limiter = pruned,
                                         !.tasks[i].st = "asleep"]
    /\ UNCHANGED <<fn_in, fn_out, fn_pc, notFn>>

\* line 129: asyncio.sleep(0.005) is over and the loop of line 128 asks
\* can_proceed again
ApiSleepEnds(i) ==
    /\ fn_pc = "await"
    /\ i \in DOMAIN fn_env.tasks
    /\ fn_env.tasks[i].st = "asleep"
    /\ fn_env' = [fn_env EXCEPT !.tasks[i].st = "waiting"]
    /\ UNCHANGED <<fn_in, fn_out, fn_pc, notFn>>

\* lines 144-149: the executor thread has run _get_channel_info_sync
ApiExecuted(i) ==
    /\ fn_pc = "await"
    /\ i \in DOMAIN fn_env.tasks
    /\ fn_env.tasks[i].st = "executing"
    /\ \E outcome \in ApiOutcomes :
          fn_env' = [fn_env EXCEPT !.tasks[i].st = "finished",
                                   !.tasks[i].outcome = outcome]
    /\ UNCHANGED <<fn_in, fn_out, fn_pc, notFn>>

\* lines 261-276: the second loop of _process_batch gets the next task's
\* result, in the order the tasks were created
ApiAwait ==
    /\ fn_pc = "await"
    /\ fn_env.awaited < Len(fn_env.tasks)
    /\ LET t == fn_env.tasks[fn_env.awaited + 1] IN
          /\ t.st = "finished"
          /\ fn_env' = [fn_env EXCEPT
                          !.df[t.index] = Recorded(@, t.outcome),
                          !.awaited = @ + 1]
    /\ UNCHANGED <<fn_in, fn_out, fn_pc, notFn>>

\* lines 314-321: the batch is through; to_csv writes the frame over the
\* input file
ApiSave ==
    /\ fn_pc = "await"
    /\ fn_env.awaited = Len(fn_env.tasks)
    /\ fn_env' = [fn_env EXCEPT !.file = fn_env.df,
                                !.start_idx = @ + safe_batch_size]
    /\ fn_pc' = "batch"
    /\ UNCHANGED <<fn_in, fn_out, notFn>>

\* line 331: the loop over the batches is over
ApiFinish ==
    /\ fn_pc = "batch"
    /\ fn_env.start_idx >= Len(fn_env.remaining)
    /\ fn_pc' = "done"
    /\ UNCHANGED <<fn_in, fn_env, fn_out, notFn>>

\* more than a minute passes: every recorded request is older than 60 seconds
ApiMinutePasses ==
    /\ fn_pc \in {"batch", "await"}
    /\ \E k \in 1..Len(fn_env.limiter.requests) :
          fn_env.limiter.requests[k] = "recent"
    /\ fn_env' = [fn_env EXCEPT
                    !.limiter.requests = [k \in 1..Len(@) |-> "old"]]
    /\ UNCHANGED <<fn_in, fn_out, fn_pc, notFn>>

NextApi ==
    \/ ApiLoad
    \/ ApiCreateTasks
    \/ \E i \in 1..MaxBatch : ApiAdmit(i)
    \/ \E i \in 1..MaxBatch : ApiSleepEnds(i)
    \/ \E i \in 1..MaxBatch : ApiExecuted(i)
    \/ ApiAwait
    \/ ApiSave
    \/ ApiFinish
    \/ ApiMinutePasses

\* the event loop runs a coroutine that can run, the executor returns, and
\* time passes
SpecApi == InitApi /\ [][NextApi]_vars /\ WF_vars(NextApi)

\* ------------------------------------------------------------------------
\* youtube-url-validator2.py: the coroutines of one process_urls_async call,
\* with the two semaphores and the request interval of _fetch
\* ------------------------------------------------------------------------

\* the values max_concurrent_requests is configured with, for the validator
\* (line 76) and for the batch (line 427)
ConcurrencyLimits == {1, 2}

\* what a batch is made of here: a URL that is fetched and one that is not
PoolUrls == {UrlC, UrlOther}

\* the Retry-After header of a 429 answer, in seconds
RetryAfter == 1

\* asyncio.Semaphore: acquire() goes through while a slot is free
CanAcquireAlways(free) == TRUE

CanAcquire(free) == free > 0

\* 2 ** attempt
RECURSIVE Pow2(_)
Pow2(n) == IF n = 0 THEN 1 ELSE 2 * Pow2(n - 1)

\* lines 94-98: the semaphore is created by the first call
_get_semaphore == IF _semaphore = <<>> THEN <<co_limit.validator>> ELSE _semaphore

\* a coroutine before process_urls_async has started it
NewCoroutine(url) == [url |-> url, st |-> "created", attempt |-> 0, wake |-> 0]

\* GETs in flight: coroutines inside `async with session.get(...)`
InFlight == {i \in DOMAIN co : co[i].st = "get"}

\* time.time() is seconds since 1970: the first call finds the initial
\* _last_request_time of 0.0 more than min_request_interval behind
InitPool ==
    /\ clock = min_request_interval
    /\ _last_request_time = 0
    /\ _semaphore = <<>>
    /\ co_limit \in [validator : ConcurrencyLimits, batch : ConcurrencyLimits]
    /\ semaphore = co_limit.batch
    /\ co \in [1..PoolTasks -> {NewCoroutine(u) : u \in PoolUrls}]
    /\ started = <<>>
    /\ input = <<>>
    /\ table = <<>>
    /\ txn = <<>>
    /\ pc = "pool"
    /\ offset = 0
    /\ urls = <<>>
    /\ pending = {}
    /\ results = <<>>
    /\ saved = 0
    /\ crashes = 0
    /\ fatal429 = FALSE
    /\ task = <<>>
    /\ IdleRl
    /\ IdlePd
    /\ IdleCsv
    /\ IdleFn

\* lines 116-119, run by the coroutine that has just got a slot of the
\* validator's semaphore
AfterAcquire(c) ==
    IF clock - _last_request_time < min_request_interval
    THEN [c EXCEPT !.st = "interval",
                   !.wake = clock + (min_request_interval
                                       - (clock - _last_request_time))]
    ELSE [c EXCEPT !.st = "ready"]

\* lines 432-434, 160-171, 114-119: the coroutine gets a slot of the batch
\* semaphore and runs validate_url up to its first await that suspends it
PoolEnter(i) ==
    /\ co[i].st = "created"
    /\ CanAcquire(semaphore)
    /\ IF ~Fetches(co[i].url)
       THEN /\ co' = [co EXCEPT ![i].st = "done"]
            /\ UNCHANGED <<semaphore, _semaphore>>
       ELSE /\ semaphore' = semaphore - 1
            /\ IF CanAcquire(_get_semaphore[1])
               THEN /\ _semaphore' = <<_get_semaphore[1] - 1>>
                    /\ co' = [co EXCEPT ![i] = AfterAcquire(@)]
               ELSE /\ _semaphore' = _get_semaphore
                    /\ co' = [co EXCEPT ![i].st = "blocked"]
    /\ UNCHANGED <<clock, _last_request_time, co_limit, started, notPool>>

\* line 115: a slot of the validator's semaphore has become free
PoolAcquire(i) ==
    /\ co[i].st = "blocked"
    /\ CanAcquire(_semaphore[1])
    /\ _semaphore' = <<_semaphore[1] - 1>>
    /\ co' = [co EXCEPT ![i] = AfterAcquire(@)]
    /\ UNCHANGED <<clock, _last_request_time, semaphore, co_limit, started,
                   notPool>>

\* line 119: asyncio.sleep(min_request_interval - time_since_last_request) ends
PoolIntervalOver(i) ==
    /\ co[i].st = "interval"
    /\ clock >= co[i].wake
    /\ co' = [co EXCEPT ![i].st = "ready"]
    /\ UNCHANGED <<clock, _last_request_time, _semaphore, semaphore, co_limit,
                   started, notPool>>

\* line 124: session.get sends the request
PoolGet(i) ==
    /\ co[i].st = "ready"
    /\ co' = [co EXCEPT ![i].st = "get"]
    /\ started' = IF Len(started) < 2 THEN Append(started, clock)
                  ELSE <<started[2], clock>>
    /\ UNCHANGED <<clock, _last_request_time, _semaphore, semaphore, co_limit,
                   notPool>>

\* the coroutine leaving, were the slot of the validator's semaphore not
\* given back
LeaveKeepsSlot(i) ==
    /\ _semaphore' = _semaphore
    /\ semaphore' = semaphore + 1
    /\ co' = [co EXCEPT ![i].st = "done"]

\* the coroutine leaves _fetch and validate_url, by return or by raise, and
\* gives both slots back
Leave(i) ==
    /\ _semaphore' = <<_semaphore[1] + 1>>
    /\ semaphore' = semaphore + 1
    /\ co' = [co EXCEPT ![i].st = "done"]

\* the loop of line 121 goes on to the next attempt or ends (line 147)
NextAttempt(i) ==
    IF co[i].attempt + 1 < max_retries
    THEN /\ co' = [co EXCEPT ![i].st = "ready", ![i].attempt = @ + 1]
         /\ UNCHANGED <<_semaphore, semaphore>>
    ELSE Leave(i)

\* lines 124-145: the GET is answered with resp, or times out
PoolAnswered(i, resp) ==
    /\ co[i].st = "get"
    /\ _last_request_time' =
          IF resp = TimedOut THEN _last_request_time ELSE clock
    /\ LET a == FetchAttempt(co[i].attempt, resp) IN
       IF a.go = "return" THEN Leave(i)
       ELSE IF a.sleep = "none" THEN NextAttempt(i)
       ELSE /\ co' = [co EXCEPT ![i].st = "asleep",
                         ![i].wake = clock + (IF a.sleep = "retry-after"
                                              THEN RetryAfter
                                              ELSE Pow2(co[i].attempt))]
            /\ UNCHANGED <<_semaphore, semaphore>>
    /\ UNCHANGED <<clock, co_limit, started, notPool>>

PoolResponse(i) == \E resp \in Responses : PoolAnswered(i, resp)

\* lines 130-131, 141, 145: asyncio.sleep ends
PoolWake(i) ==
    /\ co[i].st = "asleep"
    /\ clock >= co[i].wake
    /\ NextAttempt(i)
    /\ UNCHANGED <<clock, _last_request_time, co_limit, started, notPool>>

\* a second passes
PoolTick ==
    /\ clock < min_request_interval + PoolMaxTime
    /\ clock' = clock + 1
    /\ UNCHANGED <<_last_request_time, _semaphore, semaphore, co_limit, co,
                   started, notPool>>

NextPool ==
    \/ \E i \in 1..PoolTasks : PoolEnter(i)
    \/ \E i \in 1..PoolTasks : PoolAcquire(i)
    \/ \E i \in 1..PoolTasks : PoolIntervalOver(i)
    \/ \E i \in 1..PoolTasks : PoolGet(i)
    \/ \E i \in 1..PoolTasks : PoolResponse(i)
    \/ \E i \in 1..PoolTasks : PoolWake(i)
    \/ PoolTick

SpecPool == InitPool /\ [][NextPool]_vars

\* lines 119, 130-131, 141, 145: asyncio.sleep ends, however long it was
PoolSleepEnds(i) ==
    /\ co[i].st \in {"interval", "asleep"}
    /\ IF co[i].st = "interval"
       THEN /\ co' = [co EXCEPT ![i].st = "ready"]
            /\ UNCHANGED <<_semaphore, semaphore>>
       ELSE NextAttempt(i)
    /\ UNCHANGED <<clock, _last_request_time, co_limit, started, notPool>>

\* the coroutines with the lengths of the sleeps left out: every sleep ends
NextPoolUntimed ==
    \/ \E i \in 1..PoolTasks : PoolEnter(i)
    \/ \E i \in 1..PoolTasks : PoolAcquire(i)
    \/ \E i \in 1..PoolTasks : PoolGet(i)
    \/ \E i \in 1..PoolTasks : PoolResponse(i)
    \/ \E i \in 1..PoolTasks : PoolSleepEnds(i)

\* the event loop runs a coroutine that can run, every request is answered
\* or times out, and every sleep ends
SpecPoolUntimed ==
    InitPool /\ [][NextPoolUntimed]_vars /\ WF_vars(NextPoolUntimed)

\* ------------------------------------------------------------------------
\* Properties of process_database
\* ------------------------------------------------------------------------

\* C4: whenever a batch is being saved or its save has failed or the process
\* has crashed, the committed table holds every result of the batch or none
\* of them, and every other row is as it was when the batch was selected.
C4_BatchAllOrNothing ==
    disk \in {batch_start, UpdateAll(batch_start, update_data)}

\* ------------------------------------------------------------------------
\* Properties of the rate limiter
\* ------------------------------------------------------------------------

\* requests that left in the 60 seconds up to and including time e
SentInWindow(e) == {r \in sent : r.at > e - Window /\ r.at <= e}

C7_NoLostRecord ==
    \A r \in sent : r.rec \in dropped \/ r.rec \in Elems(heap[request_times])

\* ------------------------------------------------------------------------
\* Properties of one batch (SpecBatch)
\* ------------------------------------------------------------------------

\* C9: a 404 answer ends the fetch: no GET for the URL follows it, and the
\* URL is failed as channel not found.
C9_NoRequestAfter404 ==
    \A i \in 1..TaskCount :
        task[i].first404 # 0 =>
            /\ task[i].gets = task[i].first404
            /\ task[i].st \in {"returned", "collected"} =>
                  /\ ~task[i].out.raised
                  /\ ~task[i].out.result.is_valid
                  /\ task[i].out.result.error_message = "Channel not found"

\* the tasks handed over by as_completed
Collected == {i \in 1..TaskCount : task[i].st = "collected"}

\* C10: process_urls_async holds exactly one ChannelInfo for every URL whose
\* task has been awaited, the result validate_url returned for that URL,
\* whatever the outcome; a URL rejected before the fetch or whose fetch
\* failed has an invalid ChannelInfo; when the batch is complete there are
\* as many results as URLs.
C10_OneResultPerUrl ==
    pc = "batch" =>
        /\ Len(results) = Cardinality(Collected)
        /\ \A i \in Collected :
              /\ \E k \in 1..Len(results) : results[k] = task[i].out.result
              /\ Cardinality({k \in 1..Len(results) :
                                  results[k].url = ResultUrl(urls[i])})
                   = Cardinality({j \in Collected :
                                      ResultUrl(urls[j]) = ResultUrl(urls[i])})
              /\ ~task[i].body => ~task[i].out.result.is_valid
        /\ Collected = 1..TaskCount => Len(results) = Len(urls)

\* C10 witness: the batch is complete; the fetch of one URL used up its
\* attempts, another URL was rejected before any fetch, and each has its
\* invalid ChannelInfo among the results.
C10_Witness ==
    /\ pc = "batch"
    /\ Collected = 1..TaskCount
    /\ Len(results) = TaskCount
    /\ \E i, j \in 1..TaskCount :
          /\ task[i].gets = max_retries
          /\ ~task[i].body
          /\ task[i].out.result.error_message = FailedToFetch
          /\ task[j].gets = 0
          /\ \E k, m \in 1..Len(results) :
                /\ k # m
                /\ results[k] = task[i].out.result
                /\ results[m] = task[j].out.result

\* ------------------------------------------------------------------------
\* Properties of the batch run (SpecRun)
\* ------------------------------------------------------------------------

ResultShape(r) ==
    /\ r.is_valid => r.channel_id \notin {NONE, ""}
    /\ ~r.is_valid => r.channel_id = NONE /\ r.handle = NONE /\ r.subscribers = NONE

RowShape(row) ==
    /\ row.url_status_code \in {200, 400}
    /\ row.url_status_code = 200 => row.youtube_channel_id \notin {NONE, ""}
    /\ row.url_status_code = 400 =>
          /\ row.youtube_channel_id = NONE
          /\ row.youtube_channel_handle = NONE
          /\ row.subscriber_count = NONE

\* C1: every result of validate_url and every row save_results writes for
\* it is either valid (status code 200) with a non-empty channel ID, or
\* invalid (status code 400) with no channel ID, no handle and no subscriber
\* count, whatever stage failed.
C1_ValidityInvariant ==
    /\ \A k \in 1..Len(results) : ResultShape(results[k])
    /\ \A i \in 1..Len(txn) : RowShape(txn[i])
    /\ \A i \in 1..Len(table) : RowShape(table[i])

\* C1 witness: the table holds a valid row that carries a handle, the row
\* of a URL rejected before any fetch and the row of a URL whose fetch or
\* extraction failed.
C1_Witness ==
    /\ \E i \in 1..Len(table) :
          table[i].url_status_code = 200 /\ table[i].youtube_channel_handle # NONE
    /\ \E i \in 1..Len(table) : table[i].url_status = "Not a YouTube URL"
    /\ \E i \in 1..Len(table) :
          table[i].url_status \in
              {FailedToFetch, "Could not extract channel information"}

\* the last result of the batch for a URL
LastResultFor(url) ==
    results[CHOOSE k \in 1..Len(results) :
                /\ results[k].url = url
                /\ \A m \in (k + 1)..Len(results) : results[m].url # url]

\* C2: no sequence of saves leaves two rows for one URL, and once a batch is
\* saved each URL of its results has exactly one row, the row of the latest
\* result for that URL (inserted when the URL had no row, replaced when it
\* had one).
C2_OneRowPerUrl ==
    /\ \A i, j \in 1..Len(table) : table[i].url = table[j].url => i = j
    /\ \A i, j \in 1..Len(txn) : txn[i].url = txn[j].url => i = j
    /\ pc = "advance" =>
          \A k \in 1..Len(results) :
              /\ Cardinality({i \in 1..Len(table) : table[i].url = results[k].url}) = 1
              /\ \E i \in 1..Len(table) :
                    table[i] = Row(LastResultFor(results[k].url), offset)

\* C2 witness: after a rerun a batch has been saved whose results are for
\* different URLs, one of which already had a row from an earlier batch: the
\* row was replaced, the table has fewer rows than results were saved.
C2_Witness ==
    /\ pc = "advance"
    /\ crashes > 0
    /\ offset > 0
    /\ \A k, m \in 1..Len(results) : results[k].url = results[m].url => k = m
    /\ Len(table) < offset + Len(results)

\* C3: whenever the batch loop is about to select at the offset that
\* get_last_processed_offset returns for the output table, the input URLs
\* from that offset on are exactly the input URLs with no recorded result.
C3_ResumeSelectsUnrecorded ==
    (pc = "loop" /\ offset = get_last_processed_offset(table)) =>
        LET d == Distinct(input)
        IN {d[i] : i \in (offset + 1)..Len(d)} =
           {d[i] : i \in {j \in 1..Len(d) : ~HasRow(table, ResultUrl(d[j]))}}

\* save_results of youtube-url-validator2.py, the other writer C4 names: the
\* result table changes only in one step that makes every result of the batch
\* visible.
SaveResultsAllOrNothing ==
    [][table' # table =>
          \A k \in 1..Len(results) : HasRow(table', results[k].url)]_vars

\* C5: within a run the offset never decreases; it changes only in the step
\* after save_results has committed the batch, by the number of results
\* saved, every one of which then has its row; a save that raises leaves it
\* unchanged.
C5_OffsetAfterCommit ==
    [][(pc # "start" /\ pc' # "start") =>
          /\ offset' >= offset
          /\ (pc = "save" /\ pc' = "loop") => offset' = offset
          /\ offset' # offset =>
                /\ pc = "advance"
                /\ offset' = offset + Len(results)
                /\ \A k \in 1..Len(results) : HasRow(table, results[k].url)]_vars

\* C5 witness: the first run has saved a first batch, advanced past it, and
\* the save of the next batch has raised, the loop being back at the select.
C5_Witness ==
    /\ pc = "loop"
    /\ crashes = 0
    /\ offset > 0
    /\ Len(table) > 0
    /\ Len(results) > 0
    /\ \E k \in 1..Len(results) : ~HasRow(table, results[k].url)

\* C8: once a fetch of the run has got 429 on three consecutive attempts the
\* run is aborted: the failure is not recorded as an ordinary result after
\* which the run goes on, so the cursor of the run never moves again.
C8_Three429AbortRun ==
    [][(fatal429 /\ fatal429') => offset' = offset]_vars

\* C12: while save_results keeps failing, process_database_async ends: it
\* leaves the batch loop (pc = "done") or raises out of it (pc = "raised")
\* instead of selecting and saving the same batch again and again.
C12_StorageFailureEndsRun == <>(pc \in {"done", "raised"})

\* ------------------------------------------------------------------------
\* Properties of YoutubeCSVValidator
\* ------------------------------------------------------------------------

\* C11: a call of _save_checkpoint makes at most max_retries attempts, makes
\* no attempt after one that succeeded, returns only after an attempt that
\* succeeded, and raises exactly when max_retries attempts have failed, with
\* the run status set to failed and the error recorded.
C11_CheckpointRetries ==
    /\ Len(attempts) <= ck_max_retries
    /\ \A k \in 1..(Len(attempts) - 1) : attempts[k] = "failed"
    /\ cv = "saved" => attempts # <<>> /\ attempts[Len(attempts)] = "ok"
    /\ (Len(attempts) = ck_max_retries /\ attempts[ck_max_retries] = "failed")
          => cv = "raised"
    /\ cv = "raised" =>
          /\ Len(attempts) = ck_max_retries
          /\ \A k \in 1..Len(attempts) : attempts[k] = "failed"
          /\ status.status = "failed"
          /\ status.errors # <<>>

C11_Witness ==
    /\ cv = "raised"
    /\ Len(attempts) = ck_max_retries
    /\ current_batch # <<>>
    /\ status.status = "failed"

\* ------------------------------------------------------------------------
\* Properties of validate_url
\* ------------------------------------------------------------------------

\* C13: normalizing a normalized URL gives the same string, and a URL that
\* has a scheme is returned unchanged.
C13_NormalizeIdempotent ==
    fn_pc = "done" =>
        /\ Normalize(fn_out) = fn_out
        /\ fn_out = Normalize(fn_in)
        /\ HasScheme(fn_in) => fn_out = fn_in
        /\ ~HasScheme(fn_in) => fn_out = <<"https://">> \o fn_in

C13_Witness ==
    /\ fn_pc = "done"
    /\ fn_env = 2
    /\ ~HasScheme(fn_in)
    /\ fn_out = <<"https://">> \o fn_in

\* the host of a normalized URL
Authority(url) == IF Len(url) >= 2 THEN url[2] ELSE ""

YouTubeHosts == {"youtube.com", "www.youtube.com", "youtu.be"}

\* C14: an input whose host after normalization is not youtube.com,
\* www.youtube.com or youtu.be is rejected as not a YouTube URL without any
\* GET, also when 'youtube.com' appears in its path or query.
C14_RejectsForeignHost ==
    (fn_pc = "done" /\ IsStr(fn_in) /\ fn_in # EmptyUrl
        /\ Authority(Normalize(fn_in)) \notin YouTubeHosts)
    => (fn_env.gets = 0 /\ fn_out.error_message = "Not a YouTube URL")

\* the patterns of a list that match
Matching(caps) == {k \in DOMAIN caps : caps[k] # NONE}

\* the capture of the first pattern of a list that matches
FirstCapture(caps) ==
    IF Matching(caps) = {} THEN NONE ELSE caps[SetMin(Matching(caps))]

\* C19: each field of the result is the capture of the first pattern of its
\* own list that matches the page, None when none of them matches, whatever
\* the patterns of the other two lists capture.
C19_FirstMatchWins ==
    fn_pc = "done" =>
        /\ fn_out.channel_id = FirstCapture(fn_in.cid)
        /\ fn_out.handle = FirstCapture(fn_in.handle)
        /\ fn_out.subscribers = FirstCapture(fn_in.subs)

C19_Witness ==
    /\ fn_pc = "done"
    /\ fn_in.cid[1] # NONE /\ fn_in.cid[2] # NONE
    /\ fn_out.channel_id = fn_in.cid[1]
    /\ fn_in.handle[1] = NONE /\ fn_in.handle[2] # NONE /\ fn_in.handle[3] # NONE
    /\ fn_out.handle = fn_in.handle[2]
    /\ Matching(fn_in.subs) = {}
    /\ fn_out.subscribers = NONE

\* C20: after a page was fetched, the result is invalid exactly when no
\* channel-ID pattern matched the page, and then its error is 'Could not
\* extract channel information'; a page without a handle or a subscriber
\* count still gives a valid result.
C20_ValidIffChannelId ==
    (fn_pc = "done" /\ "html" \in DOMAIN fn_env) =>
        /\ fn_out.is_valid <=> Matching(fn_env.html.cid) # {}
        /\ ~fn_out.is_valid <=>
              fn_out.error_message = "Could not extract channel information"

C20_Witness ==
    /\ fn_pc = "done"
    /\ "html" \in DOMAIN fn_env
    /\ fn_out.is_valid
    /\ Matching(fn_env.html.handle) = {}
    /\ Matching(fn_env.html.subs) = {}

\* ------------------------------------------------------------------------
\* Properties of validate_url_format
\* ------------------------------------------------------------------------

\* the host and the path of an input, whether it has a scheme or not
HostOf(url) ==
    IF ~IsStr(url) \/ url = EmptyUrl THEN ""
    ELSE IF HasScheme(url) THEN Authority(url)
    ELSE url[1]

PathOf(url) == IF IsStr(url) THEN UrlPath(Normalize(url)) ELSE ""

\* C15: a channel/<id> URL on youtube.com, www.youtube.com or youtu.be, with
\* or without a scheme, is accepted exactly when the id is 24 characters of
\* letters, digits, '-' and '_' and begins with 'UC'.
C15_ChannelIdAccepted ==
    (fn_pc = "done" /\ HostOf(fn_in) \in YouTubeHosts
        /\ PathInfo(PathOf(fn_in)).prefix = "/channel/")
    => (fn_out.valid <=> /\ PathInfo(PathOf(fn_in)).len = 24
                         /\ PathInfo(PathOf(fn_in)).chars = "id"
                         /\ PathInfo(PathOf(fn_in)).uc)

\* C16: an @<handle> URL on one of these hosts is accepted when the handle
\* is 1 to 30 characters without whitespace or URL-reserved characters, and
\* a handle of more than 30 characters is rejected with 'Invalid path
\* format'.
C16_HandleAccepted ==
    (fn_pc = "done" /\ HostOf(fn_in) \in YouTubeHosts
        /\ PathInfo(PathOf(fn_in)).prefix = "/@")
    => /\ (/\ PathInfo(PathOf(fn_in)).len \in 1..30
           /\ PathInfo(PathOf(fn_in)).chars \in {"id", "handle"})
          => fn_out.valid
       /\ PathInfo(PathOf(fn_in)).len > 30
          => (~fn_out.valid /\ fn_out.message = "Invalid path format")

\* C17: on the host validate_url_format accepts, a user/<name> and a
\* c/<name> path are accepted as legacy shapes, and a path of no known shape
\* is rejected with 'Invalid path format'.
C17_FourShapes ==
    (fn_pc = "done" /\ Netloc(fn_in) = "www.youtube.com")
    => /\ PathOf(fn_in) \in {"/user/name", "/c/name"} => fn_out.valid
       /\ (PathInfo(PathOf(fn_in)).prefix = ""
              /\ PathOf(fn_in) \notin {"/user/name", "/c/name"})
          => (~fn_out.valid /\ fn_out.message = "Invalid path format")

\* C18: a call of validate_single_url on a URL that fails format validation
\* issues no HEAD request, leaves request_times and the session index as
\* they were, and returns at once with accessible and accessibility_message
\* unset.
C18_FormatFailureNoRequest ==
    [][(fn_pc = "call" /\ fn_pc' = "done" /\ fn_out'.format_valid = "False")
         => /\ fn_env'.heads = fn_env.heads
            /\ fn_env'.request_times = fn_env.request_times
            /\ fn_env'.current_session = fn_env.current_session
            /\ fn_env'.calls = fn_env.calls + 1
            /\ fn_out'.accessible = NONE
            /\ fn_out'.accessibility_message = NONE]_vars

C18_Witness ==
    /\ fn_pc = "done"
    /\ fn_out.format_valid = "False"
    /\ fn_env.heads > 0
    /\ fn_env.request_times # <<>>
    /\ fn_env.calls >= 2

\* ------------------------------------------------------------------------
\* Properties of _fetch under process_urls_async
\* ------------------------------------------------------------------------

\* C21: at every moment of a process_urls_async call the number of GET
\* requests in flight is at most the validator's max_concurrent_requests and
\* at most the batch's max_concurrent_requests
C21_InFlightBound ==
    /\ Cardinality(InFlight) <= co_limit.validator
    /\ Cardinality(InFlight) <= co_limit.batch

\* as many GETs in flight as the smaller limit allows while another
\* coroutine with a URL to fetch waits for a slot
C21_Witness ==
    /\ pc = "pool"
    /\ Cardinality(InFlight) = Min(co_limit.validator, co_limit.batch)
    /\ \E i \in DOMAIN co :
          /\ co[i].st \in {"created", "blocked"}
          /\ Fetches(co[i].url)

\* C22: any two GETs sent one after the other through _fetch, by the same
\* coroutine or by two of them, start at least min_request_interval seconds
\* apart
C22_RequestSpacing ==
    Len(started) = 2 => started[2] - started[1] >= min_request_interval

\* ------------------------------------------------------------------------
\* Properties of YoutubeCSVValidator._validate_urls
\* ------------------------------------------------------------------------

\* C23: when the process exits on a rate-limit error, the status is failed,
\* every row whose result was in the unsaved batch has its result recorded in
\* the file, and the row that triggered the exit has none
C23_RateLimitFlush ==
    cv = "exit" =>
        /\ status.status = "failed"
        /\ \A k \in (pos - Len(current_batch) + 1)..pos :
              csv_file[remaining[k]].subscribers # NA
        /\ csv_file[remaining[pos + 1]].subscribers = NA

\* C24: when process() has completed, every row it selected as unprocessed
\* has a recorded result in the file, so that a rerun selects none of them
C24_EveryRowRecorded ==
    cv = "done" =>
        \A k \in 1..Len(remaining) : csv_file[remaining[k]].subscribers # NA

\* ------------------------------------------------------------------------
\* Properties of extract_channel_info
\* ------------------------------------------------------------------------

\* C25: for a URL whose path is channel/<id> the result is (id, None) exactly
\* when id is 'UC' followed by 22 letters, digits, '_' or '-'; for a URL
\* whose path is @handle with a handle of such characters it is
\* (None, '@handle'); for every other input it is (None, None); never both a
\* channel ID and a handle
C25_ExtractChannelInfo ==
    fn_pc = "done" =>
        LET p == ParsedPath(fn_in)
            good_id == IsStr(fn_in) /\ p.prefix = "/channel/"
                          /\ p.uc /\ p.len = 24 /\ p.chars = "id"
            good_handle == IsStr(fn_in) /\ p.prefix = "/@"
                             /\ p.len >= 1 /\ p.chars = "id"
        IN  /\ good_id => fn_out = <<p.piece, NONE>>
            /\ good_handle => fn_out = <<NONE, "@" \o p.piece>>
            /\ ~good_id /\ ~good_handle => fn_out = <<NONE, NONE>>
            /\ ~(fn_out[1] # NONE /\ fn_out[2] # NONE)

\* ------------------------------------------------------------------------
\* Properties of process_database: selection and termination
\* ------------------------------------------------------------------------

\* C26: the commit of a batch leaves every row of the batch with a non-null
\* url_verified_status, and a row whose committed url_verified_status is
\* non-null is never handed to a worker and never rewritten, in the same run
\* or in a rerun
C26_ValidatedOnce ==
    [][ /\ (pd = "executemany" /\ pd' = "loop") =>
              \A r \in Elems(batch) : disk'[r].url_verified_status # NONE
        /\ \A r \in 1..Len(disk) :
              disk[r].url_verified_status # NONE =>
                  /\ disk'[r] = disk[r]
                  /\ r \notin todo' ]_vars

\* a rerun hands a batch to the workers while the table holds rows that an
\* earlier batch committed
C26_Witness ==
    /\ pd = "validate"
    /\ restarts >= 1
    /\ todo # {}
    /\ \E r \in 1..Len(disk) : disk[r].url_verified_status # NONE

\* C27: a run of process_database in which every request returns or times
\* out and no database error occurs ends, it returns True, and no row of the
\* table has a null url_verified_status then
C27_Terminates ==
    <>(pd = "returned" /\ ret = "True" /\ Unprocessed(disk) = <<>>)

\* the run has ended after more than one batch
C27_Witness ==
    /\ pd = "returned"
    /\ ret = "True"
    /\ processed > PdBatchSize
    /\ Unprocessed(disk) = <<>>

\* ------------------------------------------------------------------------
\* Properties of _fetch's retry loop
\* ------------------------------------------------------------------------

\* C28: _fetch issues at most max_retries GETs for a URL, whatever the
\* answers, 429 included; while it is still fetching no answer was 200; and
\* when it ends without a 200 answer it has issued max_retries GETs and
\* validate_url returns an invalid result with the fetch failure as its error
C28_BoundedFetch ==
    \A i \in DOMAIN task :
        /\ task[i].gets <= max_retries
        /\ task[i].st = "fetching" => 200 \notin Elems(task[i].seen)
        /\ (task[i].st \in {"returned", "collected"} /\ Fetches(urls[i])
                /\ ~task[i].body) =>
              /\ task[i].gets = max_retries
              /\ ~task[i].out.raised
              /\ ~task[i].out.result.is_valid
              /\ task[i].out.result.error_message = FailedToFetch

\* one fetch has returned the body at its second GET and another one has
\* failed at the ceiling
C28_Witness ==
    /\ pc = "batch"
    /\ \E i, j \in DOMAIN task :
          /\ task[i].st = "returned" /\ task[i].body /\ task[i].gets = 2
          /\ task[j].st = "returned" /\ ~task[j].body
          /\ task[j].gets = max_retries

\* C30: in _fetch a timeout or a 5xx answer to an attempt that is not the
\* last one is followed by a sleep of 2^attempt seconds before the next GET
C30_BackoffAfterTransient ==
    [][ \A i \in 1..PoolTasks : \A resp \in {500, TimedOut} :
          (PoolAnswered(i, resp) /\ co[i].attempt < max_retries - 1) =>
              /\ co'[i].st = "asleep"
              /\ co'[i].wake = clock + Pow2(co[i].attempt) ]_vars

\* ------------------------------------------------------------------------
\* Properties of AsyncYouTubeDownloader.download_html
\* ------------------------------------------------------------------------

C31_SaveFrame ==
    [][cv = "save" =>
        /\ Len(csv_file') = Len(csv_file)
        /\ \A i \in 1..Len(csv_file) :
              /\ csv_file'[i].url = csv_file[i].url
              /\ csv_file'[i].extra = csv_file[i].extra
              /\ (\A k \in 1..Len(current_batch) :
                     csv_file[i].url = NA \/ current_batch[k].url # csv_file[i].url)
                  => csv_file'[i] = csv_file[i]]_vars

\* ------------------------------------------------------------------------
\* Properties of AsyncYouTubeDownloader.process_urls
\* ------------------------------------------------------------------------

\* dict(domain_results): the last verdict appended for each URL
DictOf(pairs) ==
    [u \in {pairs[j][1] : j \in 1..Len(pairs)} |->
        LET last == CHOOSE j \in 1..Len(pairs) :
                        /\ pairs[j][1] = u
                        /\ \A k \in (j + 1)..Len(pairs) : pairs[k][1] # u
        IN  pairs[last][2]]

C38_OneDownloadAtATime ==
    /\ fn_pc \in {"next", "get", "sleep", "done"}
    /\ fn_env.free >= fn_env.concurrency - 1
    /\ (fn_pc \in {"get", "sleep"}) <=> (fn_env.free = fn_env.concurrency - 1)
    /\ \A d \in {DlNetloc(u) : u \in DlUrls} :
          LET asked == SelectSeq(fn_env.requested, LAMBDA u : DlNetloc(u) = d)
              given == SelectSeq(fn_in, LAMBDA u : DlNetloc(u) = d)
          IN  \E pick \in [1..Len(asked) -> 1..Len(given)] :
                 /\ \A k \in 1..Len(asked) : given[pick[k]] = asked[k]
                 /\ \A k \in 1..(Len(asked) - 1) : pick[k] < pick[k + 1]

\* with concurrency 1, a download is in flight for the second URL of a
\* domain after the first one of the input, of another domain, was requested
C38_Witness ==
    /\ fn_env.concurrency = 1
    /\ fn_pc = "get"
    /\ Len(fn_env.requested) = 3
    /\ DlNetloc(fn_in[1]) # DlNetloc(fn_in[2])
    /\ DlNetloc(fn_in[1]) = DlNetloc(fn_in[3])
    /\ fn_in[1] # fn_in[3]

\* ------------------------------------------------------------------------
\* Properties of process_database: the recorded verdict
\* ------------------------------------------------------------------------

\* C33: the tuple a worker's result gives has url_verified_status 'good'
\* exactly when the URL of its row is format-valid and the HEAD was answered
\* 200 or 204, and 'bad' otherwise; and every row with a recorded status has
\* 'good' or 'bad' by that rule, with accessible unset exactly when the
\* format is invalid
C33_GoodIffValidAndAccessible ==
    [][/\ (pd = "validate" /\ Len(update_data') = Len(update_data) + 1) =>
             LET t == update_data'[Len(update_data')]
                 url == conn[t.rowid].youtube_channel_url
                 valid == validate_url_format(url).valid
             IN  /\ t.url_verified_status \in {"good", "bad"}
                 /\ t.accessible = NONE <=> ~valid
                 /\ \A resp \in HeadResponses :
                       t = UpdateTuple(validate_single_url(t.rowid, url, resp))
                       => (t.url_verified_status = "good"
                              <=> (valid /\ resp \in {200, 204}))
       /\ \A r \in 1..Len(disk') :
             disk'[r].url_verified_status # NONE =>
                LET valid == validate_url_format(disk'[r].youtube_channel_url).valid
                IN  /\ disk'[r].url_verified_status \in {"good", "bad"}
                    /\ disk'[r].format_valid = PyBool(valid)
                    /\ disk'[r].accessible = NONE <=> ~valid
                    /\ disk'[r].url_verified_status = "good"
                          <=> (valid /\ disk'[r].accessibility_message = "Accessible")
      ]_vars

\* the table holds a good row, a format-valid row recorded bad after a 404
\* and a format-invalid row recorded bad with accessible unset
C33_Witness ==
    /\ pd = "returned"
    /\ \E r1, r2, r3 \in 1..Len(disk) :
          /\ disk[r1].url_verified_status = "good"
          /\ disk[r2].url_verified_status = "bad"
          /\ disk[r2].format_valid = "True"
          /\ disk[r2].accessibility_message = "Channel not found"
          /\ disk[r3].url_verified_status = "bad"
          /\ disk[r3].format_valid = "False"
          /\ disk[r3].accessible = NONE

\* ------------------------------------------------------------------------
\* Properties of process_urls_async: progress of the tasks
\* ------------------------------------------------------------------------

\* C34: every task of the batch gets the slots it waits for and completes,
\* and both semaphores are whole again
C34_EveryTaskCompletes ==
    <>(/\ \A i \in DOMAIN co : co[i].st = "done"
       /\ semaphore = co_limit.batch
       /\ _semaphore \in {<<>>, <<co_limit.validator>>})

\* two fetching tasks have completed over a single slot of the validator's
\* semaphore, one of them after all its attempts, and the slots are back
C34_Witness ==
    /\ pc = "pool"
    /\ co_limit = [validator |-> 1, batch |-> 2]
    /\ \A i \in DOMAIN co : co[i].st = "done" /\ Fetches(co[i].url)
    /\ \E i \in DOMAIN co : co[i].attempt = max_retries - 1
    /\ semaphore = 2
    /\ _semaphore = <<1>>

\* ------------------------------------------------------------------------
\* Properties of the API-based validator
\* ------------------------------------------------------------------------

\* C35: whatever the order in which the tasks of a batch run,
\* RateLimiter.quota_used stays within daily_quota and the requests recorded
\* within the last 60 seconds within max_requests_per_min
C35_LimiterBounds ==
    fn_pc \in {"batch", "await", "done"} =>
        /\ fn_env.limiter.quota_used <= daily_quota
        /\ Cardinality({k \in 1..Len(fn_env.limiter.requests) :
                          fn_env.limiter.requests[k] = "recent"})
              <= max_requests_per_min

\* two tasks of one batch are with the executor at the same time, the minute
\* is full and the quota is used up
C35_Witness ==
    /\ fn_pc = "await"
    /\ Len(fn_env.tasks) = 2
    /\ \A i \in 1..2 : fn_env.tasks[i].st = "executing"
    /\ fn_env.limiter.requests = <<"recent", "recent">>
    /\ fn_env.limiter.quota_used = daily_quota

\* C36: process_async terminates, whatever the quota the requests need
C36_ProcessAsyncTerminates == <>(fn_pc = "done")

\* C37: the file keeps all its rows, and the rows beyond the first `limit`
\* rows are as they were in the input
C37_RowsBeyondLimitKept ==
    fn_pc \in {"load", "batch", "await", "done"} =>
        /\ Len(fn_env.file) = Len(fn_in.rows)
        /\ \A k \in 1..Len(fn_in.rows) :
              (fn_in.limit # 0 /\ k > fn_in.limit /\ k <= Len(fn_env.file))
              => fn_env.file[k] = fn_in.rows[k]

============================================================================
